---- MODULE Spec2Model ----
(***************************************************************************)
(* A model of the Weaviate MCP worker: the inbound fetch handler, the      *)
(* per-call server/client construction, the client's HTTP request pipeline *)
(* (status classification), the client facade operations built on it, the  *)
(* pagination helpers and the tool handlers that wrap facade calls.        *)
(*                                                                         *)
(* Strings whose contents the code inspects are sequences of one-character *)
(* strings (URLs, the Retry-After header); strings that are only tested    *)
(* for truthiness or copied are TLA+ strings, "" standing for a missing    *)
(* (undefined / null / empty) value, all of which are falsy in the source. *)
(***************************************************************************)
EXTENDS Integers, Sequences, FiniteSets, TLC

VARIABLES
  pc,        \* per inbound call: position of the call in the worker
  inbound,   \* per inbound call: the request received (route, method, credential headers)
  http,      \* per inbound call: HTTP status answered by the fetch handler itself (0: none yet)
  clients,   \* every client instance constructed so far, in order of construction
  client,    \* per inbound call: the instance (index in clients) its server holds, 0 for none
  tool,      \* per inbound call: the tool invocation (facade operation and arguments)
  reqs,      \* per inbound call: the outbound fetch() calls issued so far, in order
  resp,      \* per inbound call: what the outbound fetch settled with
  bodyRead,  \* per inbound call: whether response.text() has been called
  pipe,      \* per inbound call: what request() returned or threw
  outcome,   \* per inbound call: what the facade operation returned or threw
  toolRes,   \* per inbound call: the tool response built by the tool handler
  util       \* last evaluation of an exported pagination helper

vars == <<pc, inbound, http, clients, client, tool, reqs, resp, bodyRead, pipe, outcome, toolRes, util>>

----------------------------------------------------------------------------
(* Bounds *)

NumCalls == 2      \* inbound calls that may be in progress together
MaxItems == 2      \* longest array a response body carries
MaxHdrLen == 2     \* longest Retry-After header value, in characters
MaxDepth == 2      \* deepest nesting of combinators in a where filter
MaxObjects == 8    \* objects in the collection that is paged through
MaxLimit == 3      \* page sizes of the paging runs

Calls == 1..NumCalls

----------------------------------------------------------------------------
(* Values *)

Undefined == [t |-> "undefined"]

\* A plain message string, and the template `Weaviate API error: ${status}`.
Str(s) == [lit |-> s, num |-> -1]
StatusTemplate(status) == [lit |-> "Weaviate API error: ", num |-> status]

\* Numbers that may be NaN.
Num(n) == [nan |-> FALSE, n |-> n]
NaN == [nan |-> TRUE, n |-> 0]

Last(s) == s[Len(s)]
Front(s) == SubSeq(s, 1, Len(s) - 1)

\* String(credentials.weaviateUrl || '').replace(/\/$/, ''): one trailing slash removed.
TrimTrailingSlash(u) == IF Len(u) > 0 /\ Last(u) = "/" THEN Front(u) ELSE u

Digits == {"0", "3", "7"}
DigitVal(ch) == CASE ch = "0" -> 0 [] ch = "3" -> 3 [] ch = "7" -> 7 [] OTHER -> 0

RECURSIVE SkipSpaces(_)
SkipSpaces(s) == IF Len(s) > 0 /\ Head(s) = " " THEN SkipSpaces(Tail(s)) ELSE s

RECURSIVE DigitPrefix(_)
DigitPrefix(s) == IF Len(s) > 0 /\ Head(s) \in Digits THEN <<Head(s)>> \o DigitPrefix(Tail(s)) ELSE <<>>

RECURSIVE DecimalValue(_)
DecimalValue(ds) == IF Len(ds) = 0 THEN 0 ELSE 10 * DecimalValue(Front(ds)) + DigitVal(Last(ds))

\* parseInt(s, 10): leading white space skipped, an optional sign, then the
\* longest prefix of decimal digits; NaN when that prefix is empty.
parseInt(s) ==
  LET t == SkipSpaces(s)
      neg == Len(t) > 0 /\ Head(t) = "-"
      u == IF Len(t) > 0 /\ Head(t) \in {"-", "+"} THEN Tail(t) ELSE t
      ds == DigitPrefix(u)
  IN IF Len(ds) = 0 THEN NaN
     ELSE Num(IF neg THEN 0 - DecimalValue(ds) ELSE DecimalValue(ds))

----------------------------------------------------------------------------
(* Typed errors (utils/errors.ts) and the untyped failures of the runtime *)

NoNum == Num(-1)

WeaviateApiError_retryable(message, statusCode) ==
  [name |-> "WeaviateApiError", message |-> message, statusCode |-> statusCode,
   code |-> "WEAVIATE_ERROR", retryable |-> TRUE, retryAfterSeconds |-> NoNum,
   typed |-> TRUE, origin |-> "status"]

\* new WeaviateApiError(message, statusCode): code and retryable take their defaults.
WeaviateApiError(message, statusCode) ==
  [name |-> "WeaviateApiError", message |-> message, statusCode |-> statusCode,
   code |-> "WEAVIATE_ERROR", retryable |-> FALSE, retryAfterSeconds |-> NoNum,
   typed |-> TRUE, origin |-> "status"]

RateLimitError(message, retryAfterSeconds) ==
  [name |-> "RateLimitError", message |-> message, statusCode |-> 429,
   code |-> "RATE_LIMIT_EXCEEDED", retryable |-> TRUE, retryAfterSeconds |-> retryAfterSeconds,
   typed |-> TRUE, origin |-> "status"]

AuthenticationError_403(message, origin) ==
  [name |-> "AuthenticationError", message |-> message, statusCode |-> 403,
   code |-> "AUTHENTICATION_FAILED", retryable |-> FALSE, retryAfterSeconds |-> NoNum,
   typed |-> TRUE, origin |-> origin]

\* origin is a history label saying where the error was constructed.
AuthenticationError(message, origin) ==
  [name |-> "AuthenticationError", message |-> message, statusCode |-> 401,
   code |-> "AUTHENTICATION_FAILED", retryable |-> FALSE, retryAfterSeconds |-> NoNum,
   typed |-> TRUE, origin |-> origin]

NotFoundError(entityType, id) ==
  [name |-> "NotFoundError", message |-> Str(entityType \o " with ID '" \o id \o "' not found"),
   statusCode |-> 404, code |-> "NOT_FOUND", retryable |-> FALSE, retryAfterSeconds |-> NoNum,
   typed |-> TRUE, origin |-> "status"]

\* Failures thrown by the runtime, not by this repository: the rejection of
\* fetch(), JSON.parse's SyntaxError, a TypeError on reading a property of undefined.
RuntimeError(name, message, origin) ==
  [name |-> name, message |-> Str(message), statusCode |-> -1, code |-> "",
   retryable |-> FALSE, retryAfterSeconds |-> NoNum, typed |-> FALSE, origin |-> origin]

\* String.prototype.includes
includes(s, sub) == \E i \in 1..(Len(s) - Len(sub) + 1) : SubSeq(s, i, i + Len(sub) - 1) = sub

\* The text of a message: the template has its status code appended.
MessageText(m) == IF m.num = -1 THEN m.lit ELSE m.lit \o ToString(m.num)

\* isRetryableError(error), error an Error: the flag of a typed error, else
\* whether the message includes 'network', 'timeout' or 'ECONNRESET'.
isRetryableError(error) ==
  IF error.typed THEN error.retryable
  ELSE \/ includes(MessageText(error.message), "network")
       \/ includes(MessageText(error.message), "timeout")
       \/ includes(MessageText(error.message), "ECONNRESET")

Return(v) == [kind |-> "return", value |-> v]
Throw(e) == [kind |-> "throw", err |-> e]
Pending == [kind |-> "pending"]

----------------------------------------------------------------------------
(* JSON values, response bodies and what fetch() settles with *)

JArray(n) == [t |-> "array", elems |-> [i \in 1..n |-> i]]

\* One per-item result r of a batch response, by how far r.result?.errors?.error
\* is filled in: no result, no errors, no error list, or a list of n entries.
BatchItem(shape, n) == [t |-> "result", shape |-> shape, errors |-> n]
BatchArray(items) == [t |-> "array", elems |-> items, of |-> "results"]

NoField == [t |-> "absent"]
ErrorObject(m) == [t |-> "object", message |-> m]    \* "error": { "message": m }, m = "" when it has none
ErrorString(s) == [t |-> "string", s |-> s]          \* "error": "s"

\* A JSON object: the properties the client reads, each possibly missing.
JObject(objects, totalResults, nodes, error, message) ==
  [t |-> "object", objects |-> objects, totalResults |-> totalResults, nodes |-> nodes,
   error |-> error, message |-> message]

EmptyObject == JObject(Undefined, -1, Undefined, NoField, "")

\* listObjects' page size when the caller gives none.
DefaultListLimit == 20

JsonValues ==
  {JArray(n) : n \in 0..MaxItems}
  \cup {EmptyObject}
  \cup {JObject(JArray(n), tot, Undefined, NoField, "") :
          n \in (0..MaxItems) \cup {DefaultListLimit}, tot \in {-1, MaxItems + 1}}
  \cup {JObject(Undefined, -1, JArray(n), NoField, "") : n \in {0, MaxItems}}
  \cup {JObject(Undefined, -1, Undefined, ErrorObject(m), msg) : m \in {"", "E"}, msg \in {"", "M"}}
  \cup {JObject(Undefined, -1, Undefined, ErrorString("S"), "")}
  \cup {JObject(Undefined, -1, Undefined, NoField, "M")}

EmptyBody == [t |-> "empty"]
TextBody == [t |-> "text", text |-> "oops"]          \* non-empty text that is not JSON
JsonBody(v) == [t |-> "json", json |-> v]

Bodies == {EmptyBody, TextBody} \cup {JsonBody(v) : v \in JsonValues}

HdrChars == {"0", "3", "7", " ", "-", "x"}
RECURSIVE SeqsUpTo(_, _)
SeqsUpTo(S, n) ==
  IF n = 0 THEN {<<>>}
  ELSE LET shorter == SeqsUpTo(S, n - 1)
       IN shorter \cup {Append(s, ch) : s \in shorter, ch \in S}

NoHeader == [present |-> FALSE, chars |-> <<>>]
Header(chars) == [present |-> TRUE, chars |-> chars]
RetryAfterValues == {NoHeader} \cup {Header(s) : s \in SeqsUpTo(HdrChars, MaxHdrLen)}

Statuses == {200, 201, 204, 302, 400, 401, 403, 404, 429, 500}

Response(status, retryAfter, body) ==
  [t |-> "response", status |-> status, retryAfter |-> retryAfter, body |-> body]
Rejected == [t |-> "rejected"]                       \* fetch() rejects: no response at all

Responses ==
  {Response(st, NoHeader, b) : st \in Statuses, b \in Bodies}
  \cup {Response(429, ra, EmptyBody) : ra \in RetryAfterValues}

\* What the batch endpoints answer: one result per item, in order.
BatchItems ==
  {BatchItem("noResult", 0), BatchItem("noErrors", 0), BatchItem("noErrorList", 0),
   BatchItem("errorList", 0), BatchItem("errorList", 2)}
BatchResponses ==
  {Response(200, NoHeader, JsonBody(BatchArray(items))) : items \in SeqsUpTo(BatchItems, MaxItems)}

Settlements == Responses \cup BatchResponses \cup {Rejected}

\* Response.ok
Ok(status) == status >= 200 /\ status <= 299

----------------------------------------------------------------------------
(* Credentials and the client (index.ts: types/env, client) *)

KeyNames == {"apiKey", "openaiApiKey", "cohereApiKey", "huggingfaceApiKey", "anthropicApiKey", "azureApiKey"}

\* A raw inbound header: absent, or present with a value (possibly empty).
Absent == [present |-> FALSE, value |-> ""]
Present(v) == [present |-> TRUE, value |-> v]
AbsentUrl == [present |-> FALSE, value |-> <<>>]

\* headers.get(name) || undefined
GetOrUndefined(h) == IF h.present THEN h.value ELSE ""
GetUrlOrUndefined(h) == IF h.present THEN h.value ELSE <<>>

parseTenantCredentials(request) ==
  [weaviateUrl |-> GetUrlOrUndefined(request.url),
   apiKey |-> GetOrUndefined(request.apiKey),
   openaiApiKey |-> GetOrUndefined(request.openaiApiKey),
   cohereApiKey |-> GetOrUndefined(request.cohereApiKey),
   huggingfaceApiKey |-> GetOrUndefined(request.huggingfaceApiKey),
   anthropicApiKey |-> GetOrUndefined(request.anthropicApiKey),
   azureApiKey |-> GetOrUndefined(request.azureApiKey)]

validateCredentials_lenient(credentials) == TRUE

\* validateCredentials throws exactly when this is FALSE.
validateCredentials(credentials) == credentials.weaviateUrl # <<>>

NoCredentials ==
  [weaviateUrl |-> <<>>, apiKey |-> "", openaiApiKey |-> "", cohereApiKey |-> "",
   huggingfaceApiKey |-> "", anthropicApiKey |-> "", azureApiKey |-> ""]

\* new WeaviateClientImpl(credentials)
WeaviateClientImpl(credentials) ==
  [credentials |-> credentials, baseUrl |-> TrimTrailingSlash(credentials.weaviateUrl)]

createWeaviateClient_cached(instances, credentials) ==
  IF Len(instances) > 0 THEN [instances |-> instances, ref |-> 1]
  ELSE [instances |-> Append(instances, WeaviateClientImpl(credentials)), ref |-> Len(instances) + 1]

\* createWeaviateClient(credentials): a new instance on every call; ref is its identity.
createWeaviateClient(instances, credentials) ==
  [instances |-> Append(instances, WeaviateClientImpl(credentials)), ref |-> Len(instances) + 1]

HeaderOf(key) ==
  CASE key = "apiKey" -> "Authorization"
    [] key = "openaiApiKey" -> "X-OpenAI-Api-Key"
    [] key = "cohereApiKey" -> "X-Cohere-Api-Key"
    [] key = "huggingfaceApiKey" -> "X-HuggingFace-Api-Key"
    [] key = "anthropicApiKey" -> "X-Anthropic-Api-Key"
    [] key = "azureApiKey" -> "X-Azure-Api-Key"

getAuthHeaders_always(credentials) ==
  {<<"Content-Type", "application/json">>}
  \cup {<<HeaderOf(k), IF k = "apiKey" THEN "Bearer " \o credentials[k] ELSE credentials[k]>> :
          k \in KeyNames}

\* getAuthHeaders(): the set of (name, value) header pairs.
getAuthHeaders(credentials) ==
  {<<"Content-Type", "application/json">>}
  \cup {<<HeaderOf(k), IF k = "apiKey" THEN "Bearer " \o credentials[k] ELSE credentials[k]>> :
          k \in {k \in KeyNames : credentials[k] # ""}}

MergeHeaders_authWins(auth, extra) ==
  auth \cup {q \in extra : \A p \in auth : p[1] # q[1]}

\* { ...authHeaders, ...(options.headers || {}) }: the later spread wins on a shared name.
MergeHeaders(auth, extra) ==
  {p \in auth : \A q \in extra : q[1] # p[1]} \cup extra

----------------------------------------------------------------------------
(* The HTTP request pipeline: WeaviateClientImpl.request *)

\* What request() yields, and whether it called response.text() on the way.
Yield(result, read) == [result |-> result, bodyRead |-> read]

\* const retryAfter = response.headers.get('Retry-After');
\* retryAfter ? parseInt(retryAfter, 10) : 60
retryAfterSeconds(header) ==
  IF header.present /\ header.chars # <<>> THEN parseInt(header.chars) ELSE Num(60)

\* errorJson.error?.message || errorJson.message || errorJson.error || message
\* (an array has none of these properties; new Error(x) stringifies an object x).
jsonErrorMessage(errorJson, message) ==
  IF errorJson.t # "object" THEN message
  ELSE IF errorJson.error.t = "object" /\ errorJson.error.message # "" THEN Str(errorJson.error.message)
  ELSE IF errorJson.message # "" THEN Str(errorJson.message)
  ELSE IF errorJson.error.t = "object" THEN Str("[object Object]")
  ELSE IF errorJson.error.t = "string" /\ errorJson.error.s # "" THEN Str(errorJson.error.s)
  ELSE message

\* The message of the generic error: the template, replaced from the parsed body,
\* or by the raw body when JSON.parse throws and the body is not empty.
errorMessage(status, body) ==
  LET message == StatusTemplate(status)
  IN CASE body.t = "json" -> jsonErrorMessage(body.json, message)
       [] body.t = "text" -> Str(body.text)
       [] body.t = "empty" -> message

\* request(), before `await fetch`: TRUE when it throws instead of calling fetch.
requestRefuses(baseUrl) == baseUrl = <<>>

NoUrlError == AuthenticationError(Str("No Weaviate URL provided. Include X-Weaviate-URL header."), "nourl")

classify_generic_first(endpoint, r) ==
  IF r.t = "rejected"
    THEN Yield(Throw(RuntimeError("TypeError", "fetch failed", "transport")), FALSE)
  ELSE IF ~Ok(r.status)
    THEN Yield(Throw(WeaviateApiError(errorMessage(r.status, r.body), r.status)), TRUE)
  ELSE IF r.status = 204
    THEN Yield(Return(Undefined), FALSE)
  ELSE IF r.body.t = "empty"
    THEN Yield(Return(Undefined), TRUE)
  ELSE IF r.body.t = "text"
    THEN Yield(Throw(RuntimeError("SyntaxError", "Unexpected token", "parse")), TRUE)
  ELSE Yield(Return(r.body.json), TRUE)

\* request(), after `await fetch` has settled with r.
classify(endpoint, r) ==
  IF r.t = "rejected"
    THEN Yield(Throw(RuntimeError("TypeError", "fetch failed", "transport")), FALSE)
  ELSE IF r.status = 429
    THEN Yield(Throw(RateLimitError(Str("Rate limit exceeded"), retryAfterSeconds(r.retryAfter))), FALSE)
  ELSE IF r.status = 401 \/ r.status = 403
    THEN Yield(Throw(AuthenticationError(Str("Authentication failed. Check your Weaviate API key."), "status")), FALSE)
  ELSE IF r.status = 404
    THEN Yield(Throw(NotFoundError("Resource", endpoint)), FALSE)
  ELSE IF ~Ok(r.status)
    THEN Yield(Throw(WeaviateApiError(errorMessage(r.status, r.body), r.status)), TRUE)
  ELSE IF r.status = 204
    THEN Yield(Return(Undefined), FALSE)
  ELSE IF r.body.t = "empty"
    THEN Yield(Return(Undefined), TRUE)
  ELSE IF r.body.t = "text"
    THEN Yield(Throw(RuntimeError("SyntaxError", "Unexpected token", "parse")), TRUE)
  ELSE Yield(Return(r.body.json), TRUE)

----------------------------------------------------------------------------
(* Pagination helpers (utils/pagination.ts) *)

DigitChar(d) ==
  CASE d = 0 -> "0" [] d = 1 -> "1" [] d = 2 -> "2" [] d = 3 -> "3" [] d = 4 -> "4"
    [] d = 5 -> "5" [] d = 6 -> "6" [] d = 7 -> "7" [] d = 8 -> "8" [] d = 9 -> "9"

\* String(n) for a non-negative integer: its decimal digits.
RECURSIVE String(_)
String(n) == IF n < 10 THEN <<DigitChar(n)>> ELSE String(n \div 10) \o <<DigitChar(n % 10)>>

Chars(cs) == [t |-> "string", chars |-> cs]
Number(n) == [t |-> "number", n |-> n]
Bool(b) == [t |-> "boolean", b |-> b]

\* x.length: the element count of an array, undefined for any other JSON object.
Length(x) == IF x.t = "array" THEN Number(Len(x.elems)) ELSE Undefined

\* options: total (-1: not given), hasMore (Undefined or Bool), nextCursor (Undefined or Chars).
PageOptions(total, hasMore, nextCursor) == [total |-> total, hasMore |-> hasMore, nextCursor |-> nextCursor]

createPaginatedResponse_total(items, options) ==
  [t |-> "page", items |-> items, count |-> Number(options.total), total |-> options.total,
   hasMore |-> IF options.hasMore.t = "boolean" THEN options.hasMore.b ELSE FALSE,
   nextCursor |-> options.nextCursor]

createPaginatedResponse(items, options) ==
  [t |-> "page", items |-> items, count |-> Length(items), total |-> options.total,
   hasMore |-> IF options.hasMore.t = "boolean" THEN options.hasMore.b ELSE FALSE,
   nextCursor |-> options.nextCursor]

emptyPaginatedResponse ==
  [t |-> "page", items |-> JArray(0), count |-> Number(0), total |-> -1,
   hasMore |-> FALSE, nextCursor |-> Undefined]

\* hasMoreItems(offset, limit, total)
hasMoreItems(offset, limit, total) == offset + limit < total

getNextOffset_inclusive(currentOffset, limit, total) ==
  LET next == currentOffset + limit
  IN IF next <= total THEN Number(next) ELSE Undefined

\* getNextOffset(currentOffset, limit, total): the next offset, or undefined.
getNextOffset(currentOffset, limit, total) ==
  LET next == currentOffset + limit
  IN IF next < total THEN Number(next) ELSE Undefined


----------------------------------------------------------------------------
(* GraphQL query synthesis (client.ts: Search) *)

\* JavaScript values handed to the query builders. A string is a sequence of
\* pieces, the piece "\"" being a double quote; a number is a non-negative
\* integer n, or n plus frac tenths; an object is its members in key order.
Frac(n, frac) == [t |-> "number", n |-> n, frac |-> frac]
Arr(elems) == [t |-> "array", elems |-> elems]
Obj(members) == [t |-> "obj", members |-> members]

Has(obj, key) == \E i \in 1..Len(obj.members) : obj.members[i][1] = key
Get(obj, key) ==
  IF Has(obj, key)
    THEN obj.members[CHOOSE i \in 1..Len(obj.members) : obj.members[i][1] = key][2]
    ELSE Undefined

\* The lexemes of a produced document.
Tok(k, name, chars) == [k |-> k, name |-> name, chars |-> chars]
P(p) == Tok("punct", p, <<>>)               \* { } ( ) [ ] ,
Key(name) == Tok("key", name, <<>>)         \* name:
JKey(name) == Tok("jkey", name, <<>>)       \* "name":
Name(name) == Tok("name", name, <<>>)       \* a bare word
NumTok(chars) == Tok("number", "", chars)   \* a numeric literal, by its characters
StrTok(chars) == Tok("string", "", chars)   \* a JSON string literal, by its escaped content
Quoted(chars) == Tok("quoted", "", chars)   \* "${x}": the raw content between two quotes

\* `${n}` and JSON.stringify(n) of a number.
NumberText(x) ==
  IF "frac" \in DOMAIN x /\ x.frac # 0
    THEN String(x.n) \o <<".", DigitChar(x.frac)>>
    ELSE String(x.n)

\* JSON.stringify's escaping of a string's content.
RECURSIVE Escape(_)
Escape(cs) ==
  IF cs = <<>> THEN <<>>
  ELSE (IF Head(cs) \in {"\"", "\\"} THEN <<"\\", Head(cs)>> ELSE <<Head(cs)>>) \o Escape(Tail(cs))

RECURSIVE Flatten(_, _)
Flatten(parts, sep) ==
  IF parts = <<>> THEN <<>>
  ELSE IF Len(parts) = 1 THEN parts[1]
  ELSE parts[1] \o <<sep>> \o Flatten(Tail(parts), sep)

\* JSON.stringify(value): members whose value is undefined are left out.
RECURSIVE JSONstringify(_)
JSONstringify(v) ==
  CASE v.t = "number" -> <<NumTok(NumberText(v))>>
    [] v.t = "string" -> <<StrTok(Escape(v.chars))>>
    [] v.t = "boolean" -> <<Name(IF v.b THEN "true" ELSE "false")>>
    [] v.t = "array" ->
         <<P("[")>> \o Flatten([i \in 1..Len(v.elems) |-> JSONstringify(v.elems[i])], P(",")) \o <<P("]")>>
    [] v.t = "obj" ->
         LET kept == SelectSeq(v.members, LAMBDA m : m[2] # Undefined)
         IN <<P("{")>>
            \o Flatten([i \in 1..Len(kept) |-> <<JKey(kept[i][1])>> \o JSONstringify(kept[i][2])], P(","))
            \o <<P("}")>>

\* [${xs.join(', ')}] of a number array.
NumberList(v) ==
  <<P("[")>> \o Flatten([i \in 1..Len(v.elems) |-> <<NumTok(NumberText(v.elems[i]))>>], P(",")) \o <<P("]")>>

\* The keys whereFilterSchema declares, in its order.
SchemaKeys ==
  <<"operator", "operands", "path", "valueInt", "valueNumber", "valueBoolean", "valueString",
    "valueText", "valueDate", "valueIntArray", "valueNumberArray", "valueBooleanArray",
    "valueStringArray", "valueTextArray", "valueDateArray">>

\* whereFilterSchema.parse(node): a z.object keeps its declared keys and strips
\* every other key of the input; operands are parsed by the same schema.
RECURSIVE whereFilterSchema(_)
whereFilterSchema(node) ==
  LET declared == SelectSeq(SchemaKeys, LAMBDA k : Has(node, k))
      parsed(k) ==
        IF k = "operands"
          THEN Arr([i \in 1..Len(Get(node, k).elems) |-> whereFilterSchema(Get(node, k).elems[i])])
          ELSE Get(node, k)
  IN Obj([i \in 1..Len(declared) |-> <<declared[i], parsed(declared[i])>>])

Raw(chars) == Tok("raw", "", chars)         \* ${x}: text copied as it is

\* Whether a value passes an `if (x)` / `x || d` test.
Truthy(v) ==
  CASE v.t = "undefined" -> FALSE
    [] v.t = "number" -> NumberText(v) # <<"0">>
    [] v.t = "string" -> v.chars # <<>>
    [] v.t = "boolean" -> v.b
    [] OTHER -> TRUE

\* options?: { limit, fields, where, tenant }, each undefined when not given.
Options(limit, fields, where, tenant) ==
  [t |-> "options", limit |-> limit, fields |-> fields, where |-> where, tenant |-> tenant]
NoOptions == Options(Undefined, Undefined, Undefined, Undefined)
\* options?.x
Opt(options, x) == IF options = Undefined THEN Undefined ELSE options[x]

DefaultFields == <<Name("_additional"), P("{"), Name("id"), Name("distance"), Name("certainty"), P("}")>>
DefaultLimit == Number(10)

buildGraphQLGetQuery_flat(className, searchClause, options) ==
  LET given == Opt(options, "fields")
      fields == IF given # Undefined /\ Len(given.elems) # 0
                  THEN [i \in 1..Len(given.elems) |-> Raw(given.elems[i].chars)]
                  ELSE DefaultFields
      limit == IF Truthy(Opt(options, "limit")) THEN options.limit ELSE DefaultLimit
      whereClause == IF Truthy(Opt(options, "where"))
                       THEN <<P(","), Key("where")>>
                            \o JSONstringify(Obj(SelectSeq(options.where.members,
                                                           LAMBDA m : m[1] # "operands")))
                       ELSE <<>>
      tenantClause == IF Truthy(Opt(options, "tenant"))
                        THEN <<P(","), Key("tenant"), Quoted(options.tenant.chars)>>
                        ELSE <<>>
  IN <<P("{"), Name("Get"), P("{"), Raw(className.chars), P("(")>>
     \o searchClause
     \o <<Key("limit"), NumTok(NumberText(limit))>>
     \o whereClause \o tenantClause
     \o <<P(")"), P("{")>> \o fields \o <<P("}"), P("}"), P("}")>>

\* The Get document for one class: search clause, limit, where, tenant, fields.
buildGraphQLGetQuery(className, searchClause, options) ==
  LET given == Opt(options, "fields")
      fields == IF given # Undefined /\ Len(given.elems) # 0
                  THEN [i \in 1..Len(given.elems) |-> Raw(given.elems[i].chars)]
                  ELSE DefaultFields
      limit == IF Truthy(Opt(options, "limit")) THEN options.limit ELSE DefaultLimit
      whereClause == IF Truthy(Opt(options, "where"))
                       THEN <<P(","), Key("where")>> \o JSONstringify(options.where)
                       ELSE <<>>
      tenantClause == IF Truthy(Opt(options, "tenant"))
                        THEN <<P(","), Key("tenant"), Quoted(options.tenant.chars)>>
                        ELSE <<>>
  IN <<P("{"), Name("Get"), P("{"), Raw(className.chars), P("(")>>
     \o searchClause
     \o <<Key("limit"), NumTok(NumberText(limit))>>
     \o whereClause \o tenantClause
     \o <<P(")"), P("{")>> \o fields \o <<P("}"), P("}"), P("}")>>

\* The parameters of the five search variants, each undefined when not given.
Params(vector, concepts, id, query, certainty, distance, moveTo, moveAwayFrom, alpha, properties, fusionType) ==
  [vector |-> vector, concepts |-> concepts, id |-> id, query |-> query, certainty |-> certainty,
   distance |-> distance, moveTo |-> moveTo, moveAwayFrom |-> moveAwayFrom, alpha |-> alpha,
   properties |-> properties, fusionType |-> fusionType]

\* moveTo / moveAwayFrom: { force, concepts?, objects? }
Move(force, concepts, objects) == [t |-> "move", force |-> force, concepts |-> concepts, objects |-> objects]

\* `, certainty: ${x}` and `, distance: ${x}`, each when x !== undefined.
Thresholds(params) ==
  (IF params.certainty # Undefined
     THEN <<P(","), Key("certainty"), NumTok(NumberText(params.certainty))>> ELSE <<>>)
  \o (IF params.distance # Undefined
        THEN <<P(","), Key("distance"), NumTok(NumberText(params.distance))>> ELSE <<>>)

MoveClause(key, move) ==
  IF ~Truthy(move) THEN <<>>
  ELSE <<P(","), Key(key), P("{"), Key("force"), NumTok(NumberText(move.force))>>
       \o (IF Truthy(move.concepts)
             THEN <<P(","), Key("concepts")>> \o JSONstringify(move.concepts) ELSE <<>>)
       \o (IF Truthy(move.objects)
             THEN <<P(","), Key("objects")>> \o JSONstringify(move.objects) ELSE <<>>)
       \o <<P("}")>>

nearVector(className, params, options) ==
  buildGraphQLGetQuery(className,
    <<Key("nearVector"), P("{"), Key("vector")>> \o NumberList(params.vector)
      \o Thresholds(params) \o <<P("}")>>,
    options)

nearText(className, params, options) ==
  buildGraphQLGetQuery(className,
    <<Key("nearText"), P("{"), Key("concepts")>> \o JSONstringify(params.concepts)
      \o Thresholds(params)
      \o MoveClause("moveTo", params.moveTo) \o MoveClause("moveAwayFrom", params.moveAwayFrom)
      \o <<P("}")>>,
    options)

nearObject(className, params, options) ==
  buildGraphQLGetQuery(className,
    <<Key("nearObject"), P("{"), Key("id"), Quoted(params.id.chars)>>
      \o Thresholds(params) \o <<P("}")>>,
    options)

hybridSearch_truthy(className, params, options) ==
  buildGraphQLGetQuery(className,
    <<Key("hybrid"), P("{"), Key("query"), Quoted(params.query.chars)>>
      \o (IF Truthy(params.alpha)
            THEN <<P(","), Key("alpha"), NumTok(NumberText(params.alpha))>> ELSE <<>>)
      \o (IF Truthy(params.vector)
            THEN <<P(","), Key("vector")>> \o NumberList(params.vector) ELSE <<>>)
      \o (IF Truthy(params.properties)
            THEN <<P(","), Key("properties")>> \o JSONstringify(params.properties) ELSE <<>>)
      \o (IF Truthy(params.fusionType)
            THEN <<P(","), Key("fusionType"), Raw(params.fusionType.chars)>> ELSE <<>>)
      \o <<P("}")>>,
    options)

hybridSearch(className, params, options) ==
  buildGraphQLGetQuery(className,
    <<Key("hybrid"), P("{"), Key("query"), Quoted(params.query.chars)>>
      \o (IF params.alpha # Undefined
            THEN <<P(","), Key("alpha"), NumTok(NumberText(params.alpha))>> ELSE <<>>)
      \o (IF Truthy(params.vector)
            THEN <<P(","), Key("vector")>> \o NumberList(params.vector) ELSE <<>>)
      \o (IF Truthy(params.properties)
            THEN <<P(","), Key("properties")>> \o JSONstringify(params.properties) ELSE <<>>)
      \o (IF Truthy(params.fusionType)
            THEN <<P(","), Key("fusionType"), Raw(params.fusionType.chars)>> ELSE <<>>)
      \o <<P("}")>>,
    options)

bm25Search(className, params, options) ==
  buildGraphQLGetQuery(className,
    <<Key("bm25"), P("{"), Key("query"), Quoted(params.query.chars)>>
      \o (IF Truthy(params.properties)
            THEN <<P(","), Key("properties")>> \o JSONstringify(params.properties) ELSE <<>>)
      \o <<P("}")>>,
    options)

SearchOps == {"nearVector", "nearText", "nearObject", "hybridSearch", "bm25Search"}

\* What a search tool's schema hands to its handler: limit defaults to 10,
\* the hybrid tool's alpha to 0.5, and the filter is parsed by whereFilterSchema.
searchToolSchema(op, args) ==
  [args EXCEPT
     !.params.alpha = IF op = "hybridSearch" /\ @ = Undefined THEN Frac(0, 5) ELSE @,
     !.options = Options(IF args.options.limit = Undefined THEN Number(10) ELSE args.options.limit,
                         args.options.fields,
                         IF args.options.where = Undefined THEN Undefined
                         ELSE whereFilterSchema(args.options.where),
                         args.options.tenant)]

\* The document the search operation hands to graphqlQuery, <<>> for the
\* operations that send none. A tool call passes what its schema parsed; a
\* caller of the client interface passes its arguments as they are.
GraphQLQuery(inv) ==
  IF inv.op \notin SearchOps THEN <<>>
  ELSE LET a == IF inv.args.via = "tool" THEN searchToolSchema(inv.op, inv.args) ELSE inv.args
       IN CASE inv.op = "nearVector" -> nearVector(a.className, a.params, a.options)
            [] inv.op = "nearText" -> nearText(a.className, a.params, a.options)
            [] inv.op = "nearObject" -> nearObject(a.className, a.params, a.options)
            [] inv.op = "hybridSearch" -> hybridSearch(a.className, a.params, a.options)
            [] inv.op = "bm25Search" -> bm25Search(a.className, a.params, a.options)

----------------------------------------------------------------------------
(* The client facade (WeaviateClientImpl) *)

ReturnOps ==
  {"getMeta", "getSchema", "getClass", "createClass", "updateClass", "getObject", "createObject",
   "updateObject", "batchCreateObjects", "batchDeleteObjects", "batchAddReferences",
   "graphqlQuery", "nearVector", "nearText", "nearObject", "hybridSearch", "bm25Search",
   "getTenants", "createTenants", "createBackup", "getBackupStatus", "restoreBackup",
   "getRestoreStatus", "getClusterStatistics", "createClassification", "getClassification"}

VoidOps ==
  {"deleteClass", "addProperty", "patchObject", "deleteObject", "addReference",
   "updateReferences", "deleteReference", "updateTenants", "deleteTenants", "cancelBackup"}

ClientOps ==
  ReturnOps \cup VoidOps
  \cup {"testConnection", "isLive", "isReady", "listObjects", "objectExists", "tenantExists", "getNodes"}

\* The endpoint each operation hands to request() (path parameters left symbolic).
Endpoint(op) ==
  CASE op \in {"testConnection", "getMeta"} -> "/meta"
    [] op = "isLive" -> "/.well-known/live"
    [] op = "isReady" -> "/.well-known/ready"
    [] op \in {"getSchema", "createClass"} -> "/schema"
    [] op \in {"getClass", "updateClass", "deleteClass"} -> "/schema/{class}"
    [] op = "addProperty" -> "/schema/{class}/properties"
    [] op = "listObjects" -> "/objects?{query}"
    [] op = "createObject" -> "/objects"
    [] op \in {"getObject", "updateObject", "patchObject", "deleteObject", "objectExists"} -> "/objects/{class}/{id}"
    [] op \in {"batchCreateObjects", "batchDeleteObjects"} -> "/batch/objects"
    [] op = "batchAddReferences" -> "/batch/references"
    [] op \in {"addReference", "updateReferences", "deleteReference"} -> "/objects/{class}/{id}/references/{property}"
    [] op \in {"graphqlQuery", "nearVector", "nearText", "nearObject", "hybridSearch", "bm25Search"} -> "/graphql"
    [] op \in {"getTenants", "createTenants", "updateTenants", "deleteTenants", "tenantExists"} -> "/schema/{class}/tenants"
    [] op = "createBackup" -> "/backups/{backend}"
    [] op \in {"getBackupStatus", "cancelBackup"} -> "/backups/{backend}/{id}"
    [] op \in {"restoreBackup", "getRestoreStatus"} -> "/backups/{backend}/{id}/restore"
    [] op = "getNodes" -> "/nodes"
    [] op = "getClusterStatistics" -> "/cluster/statistics"
    [] op = "createClassification" -> "/classifications"
    [] op = "getClassification" -> "/classifications/{id}"

\* The HTTP method of the operation's fetch (GET when the options name none).
Method(op) ==
  CASE op = "objectExists" -> "HEAD"
    [] op \in {"createClass", "addProperty", "createObject", "batchCreateObjects", "batchAddReferences",
               "addReference", "graphqlQuery", "nearVector", "nearText", "nearObject", "hybridSearch",
               "bm25Search", "createTenants", "createBackup", "restoreBackup", "createClassification"} -> "POST"
    [] op \in {"updateClass", "updateObject", "updateReferences", "updateTenants"} -> "PUT"
    [] op = "patchObject" -> "PATCH"
    [] op \in {"deleteClass", "deleteObject", "batchDeleteObjects", "deleteReference", "deleteTenants",
               "cancelBackup"} -> "DELETE"
    [] OTHER -> "GET"

\* TypeError thrown on reading a property of undefined (or calling a missing method).
DerefError == RuntimeError("TypeError", "Cannot read properties of undefined", "deref")

Connection(connected, message) == [t |-> "connection", connected |-> connected, message |-> message]
Status(s) == [t |-> "status", status |-> s]

\* return this.request(...)
returnRequest(p) == p

\* await this.request<void>(...)
awaitRequest(p) == IF p.kind = "throw" THEN p ELSE Return(Undefined)

testConnection(p) ==
  IF p.kind = "throw" THEN Return(Connection(FALSE, p.err.message))
  ELSE IF p.value.t = "undefined" THEN Return(Connection(FALSE, DerefError.message))
  ELSE Return(Connection(TRUE, Str("Connected to Weaviate {version} at {hostname}")))

isLive(p) == IF p.kind = "throw" THEN Return(Status("error")) ELSE Return(Status("ok"))

isReady_rethrow(p) == IF p.kind = "throw" THEN p ELSE Return(Status("ok"))

isReady(p) == IF p.kind = "throw" THEN Return(Status("error")) ELSE Return(Status("ok"))

\* params.limit and params.offset: 0 stands for a missing (or zero) value, both falsy.
listObjects_byTotal(p, params) ==
  IF p.kind = "throw" THEN p
  ELSE IF p.value.t # "object" THEN Throw(DerefError)
  ELSE IF p.value.objects.t = "undefined" THEN Throw(DerefError)
  ELSE LET response == p.value
           limit == IF params.limit # 0 THEN params.limit ELSE DefaultListLimit
           offset == params.offset
           hasMore == IF response.totalResults = -1 THEN Len(response.objects.elems) = limit
                      ELSE offset + limit < response.totalResults
       IN Return(createPaginatedResponse(response.objects,
                   PageOptions(response.totalResults, Bool(hasMore),
                               IF hasMore THEN Chars(String(offset + limit)) ELSE Undefined)))

listObjects_skipping(p, params) ==
  IF p.kind = "throw" THEN p
  ELSE IF p.value.t # "object" THEN Throw(DerefError)
  ELSE IF p.value.objects.t = "undefined" THEN Throw(DerefError)
  ELSE LET response == p.value
           limit == IF params.limit # 0 THEN params.limit ELSE DefaultListLimit
           offset == params.offset
           hasMore == Len(response.objects.elems) = limit
       IN Return(createPaginatedResponse(response.objects,
                   PageOptions(response.totalResults, Bool(hasMore),
                               IF hasMore THEN Chars(String(offset + limit + 1)) ELSE Undefined)))

\* listObjects(className, params), after its request() call has settled with p.
listObjects(p, params) ==
  IF p.kind = "throw" THEN p
  ELSE IF p.value.t # "object" THEN Throw(DerefError)
  ELSE IF p.value.objects.t = "undefined" THEN Throw(DerefError)
  ELSE LET response == p.value
           limit == IF params.limit # 0 THEN params.limit ELSE DefaultListLimit
           offset == params.offset
           hasMore == Len(response.objects.elems) = limit
       IN Return(createPaginatedResponse(response.objects,
                   PageOptions(response.totalResults, Bool(hasMore),
                               IF hasMore THEN Chars(String(offset + limit)) ELSE Undefined)))

getNodes(p) ==
  IF p.kind = "throw" THEN p
  ELSE IF p.value.t = "undefined" THEN Throw(DerefError)
  ELSE IF p.value.t = "object" THEN Return(p.value.nodes)
  ELSE Return(Undefined)

\* tenants.some((t) => t.name === tenantName), inside try/catch.
tenantExists(p, tenantName) ==
  IF p.kind = "throw" THEN Return(Bool(FALSE))
  ELSE IF p.value.t # "array" THEN Return(Bool(FALSE))
  ELSE Return(Bool(\E i \in 1..Len(p.value.elems) : p.value.elems[i] = tenantName))

objectExists_only200(r) ==
  IF r.t = "rejected" THEN Return(Bool(FALSE))
  ELSE Return(Bool(r.status = 200))

\* objectExists: r is what its own fetch() settled with.
objectExists(r) ==
  IF r.t = "rejected" THEN Return(Bool(FALSE))
  ELSE Return(Bool(r.status = 204 \/ r.status = 200))

\* The operation's code after its request() call has settled with p.
facade(op, args, p) ==
  CASE op = "testConnection" -> testConnection(p)
    [] op = "isLive" -> isLive(p)
    [] op = "isReady" -> isReady(p)
    [] op = "listObjects" -> listObjects(p, args)
    [] op = "getNodes" -> getNodes(p)
    [] op = "tenantExists" -> tenantExists(p, args.tenantName)
    [] op \in VoidOps -> awaitRequest(p)
    [] op \in ReturnOps -> returnRequest(p)

----------------------------------------------------------------------------
(* Tool handlers (tools/*.ts, utils/formatters.ts) *)

\* formatError(error): isError with the message, ' (retryable)' appended for a
\* typed error whose retryable flag is set.
formatError(error) ==
  [isError |-> TRUE, message |-> error.message, retryableSuffix |-> error.typed /\ error.retryable,
   data |-> Undefined]

toolContent(data) ==
  [isError |-> FALSE, message |-> Str(""), retryableSuffix |-> FALSE, data |-> data]

\* { items: x, count: x.length, hasMore: false }
listing(x) ==
  [t |-> "page", items |-> x, count |-> Length(x), total |-> -1, hasMore |-> FALSE, nextCursor |-> Undefined]

\* Tools that read a property of the client's result before formatting it.
DerefTools == {"getTenants", "getNodes", "createTenants", "batchCreateObjects", "batchAddReferences", "batchDeleteObjects"}
ListingTools == {"getTenants", "getNodes"}

\* The batch tools, whose handlers count the per-item results.
BatchTools == {"batchCreateObjects", "batchAddReferences"}

\* !r.result?.errors?.error?.length (an element that is no object has no result).
succeeded(result, i) ==
  IF "of" \notin DOMAIN result THEN TRUE
  ELSE LET r == result.elems[i]
       IN r.shape # "errorList" \/ r.errors = 0

batchSummary_allFailed(result) ==
  LET successful == Cardinality({i \in 1..Len(result.elems) : succeeded(result, i)})
  IN [t |-> "batch", success |-> TRUE, total |-> Len(result.elems),
      successful |-> successful, failed |-> Len(result.elems), results |-> result]

\* { success: true, total: result.length, successful, failed, results: result }
batchSummary(result) ==
  LET successful == Cardinality({i \in 1..Len(result.elems) : succeeded(result, i)})
      failed == Len(result.elems) - successful
  IN [t |-> "batch", success |-> TRUE, total |-> Len(result.elems),
      successful |-> successful, failed |-> failed, results |-> result]

\* weaviate_test_connection's own catch: `Connection failed: ${error.message}`.
connectionFailed(error) ==
  [isError |-> TRUE, message |-> error.message, retryableSuffix |-> FALSE, data |-> Undefined]

toolHandler_uncaught(op, out) ==
  IF out.kind = "throw" THEN toolContent(Undefined)
  ELSE IF op \in DerefTools /\ out.value.t = "undefined" THEN formatError(DerefError)
  ELSE IF op \in BatchTools /\ out.value.t # "array" THEN formatError(DerefError)
  ELSE IF op \in BatchTools THEN toolContent(batchSummary(out.value))
  ELSE IF op \in ListingTools THEN toolContent(listing(out.value))
  ELSE toolContent(out.value)

\* async (args) => { try { ... await client.op(...) ... } catch (error) { return formatError(error) } }
toolHandler(op, out) ==
  IF out.kind = "throw" /\ op = "testConnection" THEN connectionFailed(out.err)
  ELSE IF out.kind = "throw" THEN formatError(out.err)
  ELSE IF op \in DerefTools /\ out.value.t = "undefined" THEN formatError(DerefError)
  ELSE IF op \in BatchTools /\ out.value.t # "array" THEN formatError(DerefError)
  ELSE IF op \in BatchTools THEN toolContent(batchSummary(out.value))
  ELSE IF op \in ListingTools THEN toolContent(listing(out.value))
  ELSE toolContent(out.value)

----------------------------------------------------------------------------
(* Inputs *)

NoKeys ==
  [apiKey |-> Absent, openaiApiKey |-> Absent, cohereApiKey |-> Absent,
   huggingfaceApiKey |-> Absent, anthropicApiKey |-> Absent, azureApiKey |-> Absent]

AllKeys ==
  [apiKey |-> Present("k2"), openaiApiKey |-> Present("o"), cohereApiKey |-> Present("c"),
   huggingfaceApiKey |-> Present("h"), anthropicApiKey |-> Present("a"), azureApiKey |-> Present("z")]

KeyHeaders ==
  {NoKeys, AllKeys, [NoKeys EXCEPT !.apiKey = Present("k1")], [NoKeys EXCEPT !.apiKey = Present("")]}

UrlHeaders ==
  {AbsentUrl, Present(<<>>), Present(<<"/">>), Present(<<"A">>), Present(<<"A", "/">>), Present(<<"B">>)}

Inbound(route, method, url, keys) ==
  [route |-> route, method |-> method, url |-> url, apiKey |-> keys.apiKey,
   openaiApiKey |-> keys.openaiApiKey, cohereApiKey |-> keys.cohereApiKey,
   huggingfaceApiKey |-> keys.huggingfaceApiKey, anthropicApiKey |-> keys.anthropicApiKey,
   azureApiKey |-> keys.azureApiKey]

NoInbound == Inbound("", "", AbsentUrl, NoKeys)

\* One provider key alone, and every key but one provider's.
ProviderKeyHeaders ==
  {[NoKeys EXCEPT ![k] = AllKeys[k]] : k \in KeyNames \ {"apiKey"}}
  \cup {[AllKeys EXCEPT !.cohereApiKey = Absent], [AllKeys EXCEPT !.azureApiKey = Present("")]}

InboundRequests ==
  {Inbound("/mcp", "POST", u, k) : u \in UrlHeaders, k \in KeyHeaders}
  \cup {Inbound("/mcp", "POST", Present(<<"A">>), k) : k \in ProviderKeyHeaders}
  \cup {Inbound(r, "GET", AbsentUrl, NoKeys) : r \in {"/health", "/mcp", "/sse", "/"}}
  \cup {Inbound("/health", m, u, k) :
          m \in {"GET", "POST"}, u \in {AbsentUrl, Present(<<"A">>)}, k \in {NoKeys, AllKeys}}

Args(limit, offset, tenantName) == [limit |-> limit, offset |-> offset, tenantName |-> tenantName]
NoArgs == Args(0, 0, 0)

\* A search call: through its tool ("tool") or by a caller of the client
\* interface ("client"), on a class, with the variant's parameters and options.
SearchArgs(via, className, params, options) ==
  [via |-> via, className |-> className, params |-> params, options |-> options]

NoParams ==
  Params(Undefined, Undefined, Undefined, Undefined, Undefined, Undefined, Undefined, Undefined,
         Undefined, Undefined, Undefined)

Text(s) == Chars(<<s>>)
Article == Text("Article")

\* The search call of the runs that explore the request pipeline.
DefaultSearchArgs(op) ==
  SearchArgs("tool", Article,
    CASE op = "nearVector" -> [NoParams EXCEPT !.vector = Arr(<<Number(1)>>)]
      [] op = "nearText" -> [NoParams EXCEPT !.concepts = Arr(<<Text("cat")>>)]
      [] op = "nearObject" -> [NoParams EXCEPT !.id = Text("id1")]
      [] OTHER -> [NoParams EXCEPT !.query = Text("q")],
    NoOptions)

ArgsOf(op) ==
  CASE op = "listObjects" -> {Args(l, o, 0) : l \in 0..MaxItems, o \in 0..1}
    [] op = "tenantExists" -> {Args(0, 0, n) : n \in 1..MaxItems}
    [] op \in SearchOps -> {DefaultSearchArgs(op)}
    [] OTHER -> {NoArgs}

Invocations(ops) == UNION {{[op |-> op, args |-> a] : a \in ArgsOf(op)} : op \in ops}

NoTool == [op |-> "", args |-> NoArgs]
NoToolRes == [isError |-> FALSE, message |-> Str(""), retryableSuffix |-> FALSE, data |-> [t |-> "none"]]
NoUtil == [fn |-> "none", result |-> Undefined]

\* Filter Nodes: leaves with one value field and a path, combinators with operands.
Leaf(operator, path, field, value) ==
  Obj(<<<<"operator", Text(operator)>>, <<"path", Arr(<<Text(path)>>)>>, <<field, value>>>>)
Combinator(operator, operands) ==
  Obj(<<<<"operator", Text(operator)>>, <<"operands", Arr(operands)>>>>)
GeoRange(latitude, longitude, max) ==
  Obj(<<<<"geoCoordinates", Obj(<<<<"latitude", latitude>>, <<"longitude", longitude>>>>)>>,
        <<"distance", Obj(<<<<"max", max>>>>)>>>>)

IntLeaf == Leaf("Equal", "wordCount", "valueInt", Number(7))
GeoLeaf == Leaf("WithinGeoRange", "location", "valueGeoRange", GeoRange(Frac(52, 3), Number(4), Number(1000)))
Leaves ==
  {IntLeaf, GeoLeaf,
   Leaf("GreaterThan", "score", "valueNumber", Frac(1, 5)),
   Leaf("IsNull", "title", "valueBoolean", Bool(FALSE)),
   Leaf("Like", "title", "valueText", Chars(<<"a", "\"", "b", "\\">>)),
   Leaf("ContainsAny", "tags", "valueIntArray", Arr(<<Number(1), Number(20)>>))}

\* The filters nested at most d combinators deep.
RECURSIVE Filters(_)
Filters(d) ==
  IF d = 0 THEN Leaves
  ELSE LET sub == Filters(d - 1)
       IN sub
          \cup {Combinator(op, <<a>>) : op \in {"And", "Or"}, a \in sub}
          \cup {Combinator(op, <<a, b>>) : op \in {"And", "Or"}, a \in sub, b \in {IntLeaf, GeoLeaf}}

Thresholds01 == {Undefined, Number(0), Frac(0, 7)}

NearTextParams ==
  {[NoParams EXCEPT !.concepts = cs, !.certainty = ce, !.distance = di, !.moveTo = mt] :
     cs \in {Arr(<<Text("cat")>>), Arr(<<Chars(<<"a", "\"">>), Text("dog")>>)},
     ce \in Thresholds01, di \in Thresholds01,
     mt \in {Undefined, Move(Frac(0, 5), Arr(<<Text("pet")>>), Undefined)}}

HybridParams ==
  {[NoParams EXCEPT !.query = Text("q"), !.alpha = al, !.vector = ve, !.properties = pr, !.fusionType = fu] :
     al \in {Undefined, Number(0), Frac(0, 3)},
     ve \in {Undefined, Arr(<<>>), Arr(<<Number(1), Frac(0, 5)>>)},
     pr \in {Undefined, Arr(<<Text("title")>>)},
     fu \in {Undefined, Text("rankedFusion")}}

NearVectorParams ==
  {[NoParams EXCEPT !.vector = Arr(<<Number(1), Frac(0, 5)>>), !.certainty = ce, !.distance = di] :
     ce \in Thresholds01, di \in Thresholds01}

NearObjectParams ==
  {[NoParams EXCEPT !.id = Text("id1"), !.certainty = ce, !.distance = di] :
     ce \in Thresholds01, di \in Thresholds01}

Bm25Params ==
  {[NoParams EXCEPT !.query = Text("q"), !.properties = pr] : pr \in {Undefined, Arr(<<Text("title")>>)}}

\* Options a caller of the client interface can pass, and those a tool call can
\* (a tool's schema rejects a limit below 1, and its handler always passes options).
LimitOptions == {Options(l, Undefined, Undefined, Undefined) : l \in {Undefined, Number(0), Number(5)}}
ClientOptions == {Undefined} \cup LimitOptions
ToolOptions == {NoOptions, Options(Number(5), Undefined, Undefined, Undefined)}
ScopeOptions ==
  {Options(Undefined, fi, Undefined, te) :
     fi \in {Undefined, Arr(<<>>), Arr(<<Text("title"), Text("body")>>)},
     te \in {Undefined, Chars(<<>>), Text("t1")}}
FilterOptions == {Options(Undefined, Undefined, w, Undefined) : w \in Filters(MaxDepth)}
\* A tenant and a filter, each given or not; a tenant name may hold any character.
Tenants == {Undefined, Chars(<<>>), Text("t1"), Chars(<<"t", "\"", "1">>)}
TenantOptions ==
  {Options(Undefined, Undefined, w, te) : w \in {Undefined, IntLeaf}, te \in Tenants}

SearchCalls(op, params, via, options) ==
  {[op |-> op, args |-> SearchArgs(via, Article, pa, o)] : pa \in params, o \in options}

SearchInvocations ==
  SearchCalls("nearText", NearTextParams, "client", ClientOptions)
  \cup SearchCalls("nearText", NearTextParams, "tool", ToolOptions)
  \cup SearchCalls("hybridSearch", HybridParams, "client", {Undefined, NoOptions})
  \cup SearchCalls("hybridSearch", HybridParams, "tool", {NoOptions})
  \cup SearchCalls("nearVector", NearVectorParams, "client", {NoOptions})
  \cup SearchCalls("nearObject", NearObjectParams, "tool", {NoOptions})
  \cup SearchCalls("bm25Search", Bm25Params, "client", LimitOptions \cup ScopeOptions)
  \cup SearchCalls("bm25Search", {[NoParams EXCEPT !.query = Text("q")]}, "client", FilterOptions)
  \cup SearchCalls("bm25Search", {[NoParams EXCEPT !.query = Text("q")]}, "tool", FilterOptions)
  \cup UNION {SearchCalls(op, {DefaultSearchArgs(op).params}, via, TenantOptions) :
               op \in SearchOps, via \in {"client", "tool"}}

SearchRequests ==
  {Inbound("/mcp", "POST", Present(<<"A">>), [NoKeys EXCEPT !.apiKey = Present("k1")]),
   Inbound("/mcp", "POST", AbsentUrl, NoKeys)}
SearchSettlements ==
  {Response(200, NoHeader, JsonBody(EmptyObject)), Response(500, NoHeader, TextBody), Rejected}

\* Inputs of the runs in which several inbound calls are in progress together.
ConcRequests ==
  {Inbound("/mcp", "POST", Present(<<"A">>), [NoKeys EXCEPT !.apiKey = Present("k1")]),
   Inbound("/mcp", "POST", Present(<<"B", "/">>), AllKeys),
   Inbound("/mcp", "POST", Present(<<"/">>), NoKeys),
   Inbound("/mcp", "POST", AbsentUrl, NoKeys)}
ConcOps == {"getMeta", "objectExists", "tenantExists"}
ConcSettlements ==
  {Response(200, NoHeader, JsonBody(JArray(1))), Response(429, NoHeader, EmptyBody), Rejected}

----------------------------------------------------------------------------
(* The state machine *)

Init ==
  /\ pc = [c \in Calls |-> "idle"]
  /\ inbound = [c \in Calls |-> NoInbound]
  /\ http = [c \in Calls |-> 0]
  /\ clients = <<>>
  /\ client = [c \in Calls |-> 0]
  /\ tool = [c \in Calls |-> NoTool]
  /\ reqs = [c \in Calls |-> <<>>]
  /\ resp = [c \in Calls |-> [t |-> "none"]]
  /\ bodyRead = [c \in Calls |-> FALSE]
  /\ pipe = [c \in Calls |-> Pending]
  /\ outcome = [c \in Calls |-> Pending]
  /\ toolRes = [c \in Calls |-> NoToolRes]
  /\ util = NoUtil

\* The worker's status for a request it answers without building a server;
\* 0 when the request is a POST /mcp with valid credentials, which is served.
fetchHandlerStatus(request) ==
  IF request.route = "/health" THEN 200
  ELSE IF request.route = "/mcp" /\ request.method = "POST"
    THEN IF validateCredentials(parseTenantCredentials(request)) THEN 0 ELSE 401
  ELSE IF request.route = "/sse" THEN 501
  ELSE 200

\* export default { fetch }: the worker receives an inbound request. A POST /mcp
\* with valid credentials gets its own server and client (createStatelessServer).
Receive(c, requests) ==
  /\ pc[c] = "idle"
  /\ util = NoUtil
  /\ \E request \in requests :
       LET status == fetchHandlerStatus(request)
           made == createWeaviateClient(clients, parseTenantCredentials(request))
       IN /\ inbound' = [inbound EXCEPT ![c] = request]
          /\ http' = [http EXCEPT ![c] = status]
          /\ IF status = 0
               THEN /\ clients' = made.instances
                    /\ client' = [client EXCEPT ![c] = made.ref]
                    /\ pc' = [pc EXCEPT ![c] = "serving"]
               ELSE /\ UNCHANGED <<clients, client>>
                    /\ pc' = [pc EXCEPT ![c] = "answered"]
  /\ UNCHANGED <<tool, reqs, resp, bodyRead, pipe, outcome, toolRes, util>>

fetch_twice(log, request) == Append(Append(log, request), request)

\* fetch(url, init): one outbound call is issued and recorded.
fetch(log, request) == Append(log, request)

Outbound(cl, inv, extraHeaders) ==
  [base |-> cl.baseUrl, endpoint |-> Endpoint(inv.op), method |-> Method(inv.op),
   headers |-> MergeHeaders(getAuthHeaders(cl.credentials), extraHeaders),
   query |-> GraphQLQuery(inv)]

\* A tool of the call's server is invoked: its handler calls the facade operation,
\* which runs up to its `await fetch`, or to completion when request() throws first.
CallTool(c, invocations) ==
  /\ pc[c] = "serving"
  /\ \E inv \in invocations :
       LET cl == clients[client[c]]
           refused == inv.op # "objectExists" /\ requestRefuses(cl.baseUrl)
           p == Throw(NoUrlError)
           out == facade(inv.op, inv.args, p)
       IN /\ tool' = [tool EXCEPT ![c] = inv]
          /\ IF refused
               THEN /\ pipe' = [pipe EXCEPT ![c] = p]
                    /\ outcome' = [outcome EXCEPT ![c] = out]
                    /\ toolRes' = [toolRes EXCEPT ![c] = toolHandler(inv.op, out)]
                    /\ pc' = [pc EXCEPT ![c] = "done"]
                    /\ UNCHANGED reqs
               ELSE /\ reqs' = [reqs EXCEPT ![c] = fetch(reqs[c], Outbound(cl, inv, {}))]
                    /\ pc' = [pc EXCEPT ![c] = "fetching"]
                    /\ UNCHANGED <<pipe, outcome, toolRes>>
  /\ UNCHANGED <<inbound, http, clients, client, resp, bodyRead, util>>

\* A URL without a base ("/v1/...") is not a valid absolute URL: fetch rejects.
\* Per-item results are what the two batch POST endpoints answer with.
CanSettle(request, r) ==
  /\ request.base = <<>> => r = Rejected
  /\ r \in BatchResponses =>
       request.method = "POST" /\ request.endpoint \in {"/batch/objects", "/batch/references"}

\* The outbound fetch settles; the rest of request(), of the facade operation and
\* of the tool handler run to completion.
Settle(c, settlements) ==
  /\ pc[c] = "fetching"
  /\ \E r \in settlements :
       LET op == tool[c].op
           y == IF op = "objectExists" THEN Yield(Pending, FALSE) ELSE classify(Endpoint(op), r)
           out == IF op = "objectExists" THEN objectExists(r) ELSE facade(op, tool[c].args, y.result)
       IN /\ CanSettle(Last(reqs[c]), r)
          /\ resp' = [resp EXCEPT ![c] = r]
          /\ pipe' = [pipe EXCEPT ![c] = y.result]
          /\ bodyRead' = [bodyRead EXCEPT ![c] = y.bodyRead]
          /\ outcome' = [outcome EXCEPT ![c] = out]
          /\ toolRes' = [toolRes EXCEPT ![c] = toolHandler(op, out)]
          /\ pc' = [pc EXCEPT ![c] = "done"]
  /\ UNCHANGED <<inbound, http, clients, client, tool, reqs, util>>

PageItems == {JArray(n) : n \in 0..MaxItems}
PageOptionSets ==
  {PageOptions(total, hasMore, nextCursor) :
     total \in {-1, 0, MaxItems + 1},
     hasMore \in {Undefined, Bool(TRUE), Bool(FALSE)},
     nextCursor \in {Undefined, Chars(<<"2">>)}}

\* A caller evaluates createPaginatedResponse(items, options).
CreatePaginatedResponse ==
  /\ util = NoUtil
  /\ \A c \in Calls : pc[c] = "idle"
  /\ \E items \in PageItems, options \in PageOptionSets :
       util' = [fn |-> "createPaginatedResponse", result |-> createPaginatedResponse(items, options)]
  /\ UNCHANGED <<pc, inbound, http, clients, client, tool, reqs, resp, bodyRead, pipe, outcome, toolRes>>

\* A caller evaluates emptyPaginatedResponse().
EmptyPaginatedResponse ==
  /\ util = NoUtil
  /\ \A c \in Calls : pc[c] = "idle"
  /\ util' = [fn |-> "emptyPaginatedResponse", result |-> emptyPaginatedResponse]
  /\ UNCHANGED <<pc, inbound, http, clients, client, tool, reqs, resp, bodyRead, pipe, outcome, toolRes>>

\* Offsets, page sizes and totals the window helpers are evaluated on.
WindowOffsets == {0, 10, 20, 40}
WindowLimits == {0, 10, 20}
WindowTotals == {0, 25, 45}

\* A caller evaluates hasMoreItems(offset, limit, total).
HasMoreItems ==
  /\ util = NoUtil
  /\ \A c \in Calls : pc[c] = "idle"
  /\ \E offset \in WindowOffsets, limit \in WindowLimits, total \in WindowTotals :
       util' = [fn |-> "hasMoreItems", args |-> <<offset, limit, total>>,
                result |-> Bool(hasMoreItems(offset, limit, total))]
  /\ UNCHANGED <<pc, inbound, http, clients, client, tool, reqs, resp, bodyRead, pipe, outcome, toolRes>>

\* A caller evaluates getNextOffset(currentOffset, limit, total).
GetNextOffset ==
  /\ util = NoUtil
  /\ \A c \in Calls : pc[c] = "idle"
  /\ \E offset \in WindowOffsets, limit \in WindowLimits, total \in WindowTotals :
       util' = [fn |-> "getNextOffset", args |-> <<offset, limit, total>>,
                result |-> getNextOffset(offset, limit, total)]
  /\ UNCHANGED <<pc, inbound, http, clients, client, tool, reqs, resp, bodyRead, pipe, outcome, toolRes>>

\* Failed responses and runtime failures whose errors are put to isRetryableError:
\* bodies with and without a hint in their text.
HintTexts == {"upstream request timeout", "network unreachable", "read ECONNRESET", "oops"}
FailedResponses ==
  {Response(st, NoHeader, b) :
     st \in {400, 401, 404, 429, 500},
     b \in {EmptyBody, JsonBody(EmptyObject)} \cup {[t |-> "text", text |-> x] : x \in HintTexts}}
ThrownErrors ==
  {classify("/v1/meta", r).result.err : r \in FailedResponses}
  \cup {RuntimeError("TypeError", x, "transport") : x \in HintTexts \cup {"fetch failed"}}

\* A caller evaluates isRetryableError(error) on an error a client call threw.
IsRetryableError ==
  /\ util = NoUtil
  /\ \A c \in Calls : pc[c] = "idle"
  /\ \E error \in ThrownErrors :
       util' = [fn |-> "isRetryableError", args |-> <<error>>,
                result |-> Bool(isRetryableError(error))]
  /\ UNCHANGED <<pc, inbound, http, clients, client, tool, reqs, resp, bodyRead, pipe, outcome, toolRes>>

\* options.headers as a caller of request() can give it: undefined, or a plain
\* object of header names and values.
HeaderObject(pairs) == [t |-> "object", pairs |-> pairs]
CallerHeaders ==
  {Undefined, HeaderObject({}),
   HeaderObject({<<"Authorization", "Bearer caller">>}),
   HeaderObject({<<"X-Trace", "1">>}),
   HeaderObject({<<"Content-Type", "text/plain">>, <<"X-Trace", "1">>}),
   HeaderObject({<<"authorization", "Bearer caller">>})}
MergeCredentials ==
  {NoCredentials, [NoCredentials EXCEPT !.apiKey = "k1"],
   [NoCredentials EXCEPT !.apiKey = "k1", !.openaiApiKey = "k2", !.cohereApiKey = "k3"]}

\* request(endpoint, options) builds the headers of its fetch call.
RequestHeaders ==
  /\ util = NoUtil
  /\ \A c \in Calls : pc[c] = "idle"
  /\ \E credentials \in MergeCredentials, headers \in CallerHeaders :
       LET auth == getAuthHeaders(credentials)
           extra == IF headers = Undefined THEN {} ELSE headers.pairs
       IN util' = [fn |-> "request.headers", args |-> <<auth, headers>>,
                   result |-> HeaderObject(MergeHeaders(auth, extra))]
  /\ UNCHANGED <<pc, inbound, http, clients, client, tool, reqs, resp, bodyRead, pipe, outcome, toolRes>>

\* One inbound call at a time, over the full input sets.
Next ==
  \/ Receive(1, InboundRequests)
  \/ CallTool(1, Invocations(ClientOps))
  \/ Settle(1, Settlements)
  \/ CreatePaginatedResponse
  \/ EmptyPaginatedResponse
  \/ HasMoreItems
  \/ GetNextOffset
  \/ IsRetryableError
  \/ RequestHeaders

Spec == Init /\ [][Next]_vars

\* Inbound calls in progress together, interleaved at their await points.
NextConc ==
  \/ \E c \in Calls : Receive(c, ConcRequests)
  \/ \E c \in Calls : CallTool(c, Invocations(ConcOps))
  \/ \E c \in Calls : Settle(c, ConcSettlements)

SpecConc == Init /\ [][NextConc]_vars

\* One inbound call that runs a search, over the search input sets.
NextSearch ==
  \/ Receive(1, SearchRequests)
  \/ CallTool(1, SearchInvocations)
  \/ Settle(1, SearchSettlements)

SpecSearch == Init /\ [][NextSearch]_vars

----------------------------------------------------------------------------
(* Properties *)

Done(c) == pc[c] = "done"
Served(c) == client[c] # 0
ClientOf(c) == clients[client[c]]
\* The call's operation went through request() and its fetch produced a response.
Responded(c) == Done(c) /\ tool[c].op # "objectExists" /\ resp[c].t = "response"
Threw(x, name) == x.kind = "throw" /\ x.err.name = name

\* C1: with no base URL configured no operation issues an outbound call; the
\* request pipeline fails with an authentication error instead.
C1_NoBaseUrlNoOutboundCall ==
  \A c \in Calls :
    Served(c) /\ ClientOf(c).baseUrl = <<>> =>
      /\ reqs[c] = <<>>
      /\ Done(c) => Threw(pipe[c], "AuthenticationError")

\* C2: every (status, body) is classified by the first matching rule of the
\* decision list 429, 401/403, 404, other non-2xx, 204, empty 2xx body, and
\* otherwise yields the JSON-parsed body.
C2_DecisionList ==
  \A c \in Calls :
    Responded(c) =>
      LET st == resp[c].status
          body == resp[c].body
      IN IF st = 429 THEN Threw(pipe[c], "RateLimitError")
         ELSE IF st \in {401, 403} THEN Threw(pipe[c], "AuthenticationError")
         ELSE IF st = 404 THEN Threw(pipe[c], "NotFoundError")
         ELSE IF st < 200 \/ st > 299
           THEN Threw(pipe[c], "WeaviateApiError") /\ pipe[c].err.statusCode = st
         ELSE IF st = 204 THEN pipe[c] = Return(Undefined)
         ELSE IF body.t = "empty" THEN pipe[c] = Return(Undefined)
         ELSE body.t = "json" /\ pipe[c] = Return(body.json)

\* C3: for 429 and for 404 the status alone decides the error kind, whatever
\* the body is, and the body is not read.
C3_StatusAloneDecides ==
  \A c \in Calls :
    Responded(c) =>
      /\ resp[c].status = 429 => Threw(pipe[c], "RateLimitError") /\ ~bodyRead[c]
      /\ resp[c].status = 404 => Threw(pipe[c], "NotFoundError") /\ ~bodyRead[c]

C3_Witness ==
  \E c \in Calls :
    /\ Responded(c) /\ resp[c].status = 429 /\ resp[c].body = TextBody
    /\ Threw(pipe[c], "RateLimitError")

\* C4: the rate-limit error carries the number parsed from Retry-After, and 60
\* when the header is absent or does not parse as a number.
C4_RetryAfterDefault ==
  \A c \in Calls :
    Responded(c) /\ resp[c].status = 429 =>
      LET h == resp[c].retryAfter
          parsed == parseInt(h.chars)
      IN /\ Threw(pipe[c], "RateLimitError")
         /\ pipe[c].err.retryAfterSeconds = IF ~h.present \/ parsed.nan THEN Num(60) ELSE parsed

\* C5: objectExists issues one HEAD request, returns true exactly for a 200 or
\* 204 response, false for any other outcome, and never throws.
C5_ObjectExists ==
  \A c \in Calls :
    tool[c].op = "objectExists" =>
      /\ Len(reqs[c]) = 1 /\ reqs[c][1].method = "HEAD"
      /\ Done(c) => outcome[c] = Return(Bool(resp[c].t = "response" /\ resp[c].status \in {200, 204}))

C5_Witness ==
  \E c \in Calls :
    /\ Done(c) /\ tool[c].op = "objectExists" /\ resp[c] = Rejected
    /\ outcome[c] = Return(Bool(FALSE))

Negative(v) ==
  \/ v = Bool(FALSE)
  \/ v = Status("error")
  \/ v.t = "connection" /\ ~v.connected

Failed(c) ==
  IF tool[c].op = "objectExists"
    THEN ~(resp[c].t = "response" /\ resp[c].status \in {200, 204})
    ELSE pipe[c].kind = "throw"

\* C6 as stated: isLive, isReady, objectExists and tenantExists are the only
\* operations that recover locally; every other one propagates the pipeline's error.
C6_OnlyFourRecover ==
  \A c \in Calls :
    Done(c) /\ tool[c].op \notin {"isLive", "isReady", "objectExists", "tenantExists"}
      /\ pipe[c].kind = "throw" => outcome[c] = pipe[c]

RecoveringOps == {"testConnection", "isLive", "isReady", "objectExists", "tenantExists"}

\* C6 amended: testConnection, isLive, isReady, objectExists and tenantExists are
\* the only operations that recover locally, turning any failure into a negative
\* result; every other one propagates the pipeline's error unmodified.
C6_FiveRecover ==
  \A c \in Calls :
    Done(c) =>
      IF tool[c].op \in RecoveringOps
        THEN outcome[c].kind = "return" /\ (Failed(c) => Negative(outcome[c].value))
        ELSE pipe[c].kind = "throw" => outcome[c] = pipe[c]

C6_Witness ==
  \E c \in Calls :
    /\ Done(c) /\ tool[c].op = "testConnection" /\ Threw(pipe[c], "WeaviateApiError")
    /\ outcome[c].kind = "return" /\ ~outcome[c].value.connected

\* C7 as stated: every facade call issues exactly one outbound request.
C7_ExactlyOneRequest ==
  \A c \in Calls : Done(c) => Len(reqs[c]) = 1

\* C7 amended: a facade call never issues a second outbound request, whatever
\* the first one's outcome; it issues exactly one when the client has a base URL
\* (objectExists always does) and none when request() refuses for lack of one.
C7_AtMostOneRequest ==
  \A c \in Calls :
    /\ Len(reqs[c]) <= 1
    /\ Done(c) => (Len(reqs[c]) = 1 <=> (tool[c].op = "objectExists" \/ ClientOf(c).baseUrl # <<>>))

C7_Witness ==
  \E c \in Calls :
    /\ Done(c) /\ tool[c].op = "tenantExists" /\ resp[c].t = "response" /\ resp[c].status = 429
    /\ Len(reqs[c]) = 1

\* C8: every error a facade operation reports to its caller is a typed error
\* built by the request pipeline; no raw runtime failure reaches the caller.
C8_OnlyTypedErrors ==
  \A c \in Calls :
    Done(c) /\ outcome[c].kind = "throw" => outcome[c].err.typed

\* C9: every inbound call has a client instance of its own, holding the
\* credentials of that call's request, and each outbound request of the call
\* carries only that call's base URL and keys.
C9_Isolation ==
  \A c \in Calls :
    LET own == parseTenantCredentials(inbound[c])
    IN /\ Served(c) => ClientOf(c).credentials = own
       /\ \A d \in Calls \ {c} : Served(c) /\ Served(d) => client[c] # client[d]
       /\ \A i \in 1..Len(reqs[c]) :
            /\ reqs[c][i].base = TrimTrailingSlash(own.weaviateUrl)
            /\ reqs[c][i].headers = getAuthHeaders(own)

C9_Witness ==
  \E c, d \in Calls :
    /\ c # d /\ pc[c] = "fetching" /\ pc[d] = "fetching"
    /\ inbound[c].url # inbound[d].url /\ inbound[c].apiKey # inbound[d].apiKey

\* items.length as the paginated result's consumer reads it.
CountMatches(page) ==
  IF page.items.t = "array" THEN page.count = Number(Len(page.items.elems))
  ELSE page.count = Undefined

\* C10: every paginated result the program builds has count = items.length.
C10_CountIsLength ==
  /\ util.result.t = "page" => CountMatches(util.result)
  /\ \A c \in Calls :
       /\ outcome[c].kind = "return" /\ outcome[c].value.t = "page" => CountMatches(outcome[c].value)
       /\ toolRes[c].data.t = "page" => CountMatches(toolRes[c].data)

C10_Witness ==
  \E c \in Calls :
    /\ Done(c) /\ tool[c].op = "listObjects" /\ outcome[c].kind = "return"
    /\ outcome[c].value.t = "page" /\ outcome[c].value.count = Number(MaxItems)
    /\ outcome[c].value.total = -1

\* nextCursor is defined exactly when hasMore is true.
CursorIffHasMore(page) == (page.nextCursor # Undefined) <=> page.hasMore

\* C11: in every paginated result, whether createPaginatedResponse built it
\* from caller-chosen options or listObjects returned it, nextCursor is
\* defined if and only if hasMore is true.
C11_CursorIffHasMore ==
  /\ util.result.t = "page" => CursorIffHasMore(util.result)
  /\ \A c \in Calls :
       outcome[c].kind = "return" /\ outcome[c].value.t = "page" =>
         CursorIffHasMore(outcome[c].value)

\* C12: hasMoreItems is true exactly when offset + limit < total, and
\* getNextOffset returns offset + limit exactly when hasMoreItems is true for
\* the same arguments, and undefined otherwise.
C12_WindowHelpers ==
  /\ util.fn = "hasMoreItems" =>
       util.result = Bool(util.args[1] + util.args[2] < util.args[3])
  /\ util.fn = "getNextOffset" =>
       LET more == hasMoreItems(util.args[1], util.args[2], util.args[3])
       IN /\ more => util.result = Number(util.args[1] + util.args[2])
          /\ ~more => util.result = Undefined

C12_Witness ==
  /\ util.fn = "getNextOffset"
  /\ util.args = <<40, 20, 45>>
  /\ util.result = Undefined

\* The number a string of decimal digits denotes.
DigitOf(ch) ==
  CASE ch = "0" -> 0 [] ch = "1" -> 1 [] ch = "2" -> 2 [] ch = "3" -> 3 [] ch = "4" -> 4
    [] ch = "5" -> 5 [] ch = "6" -> 6 [] ch = "7" -> 7 [] ch = "8" -> 8 [] ch = "9" -> 9
RECURSIVE DecimalOf(_)
DecimalOf(cs) == IF cs = <<>> THEN 0 ELSE 10 * DecimalOf(Front(cs)) + DigitOf(Last(cs))

\* The call ran listObjects to a paginated result.
Listed(c) ==
  /\ Done(c) /\ tool[c].op = "listObjects"
  /\ outcome[c].kind = "return" /\ outcome[c].value.t = "page"

\* C13: listObjects sets hasMore exactly when the page holds as many items as
\* the effective limit (the requested one, 20 when none or 0 is requested),
\* whatever total the server reports, and then nextCursor is the decimal
\* string of offset + limit.
C13_ListObjectsHeuristic ==
  \A c \in Calls :
    Listed(c) =>
      LET page == outcome[c].value
          requested == tool[c].args.limit
          limit == IF requested = 0 THEN 20 ELSE requested
          returned == Len(resp[c].body.json.objects.elems)
      IN /\ page.hasMore <=> returned = limit
         /\ page.hasMore =>
              /\ page.nextCursor.t = "string"
              /\ page.nextCursor.chars # <<>>
              /\ Len(page.nextCursor.chars) > 1 => Head(page.nextCursor.chars) # "0"
              /\ DecimalOf(page.nextCursor.chars) = tool[c].args.offset + limit

\* No limit requested, a page of 20 items, and a reported total that says
\* there is nothing after this page.
C13_Witness ==
  \E c \in Calls :
    /\ Listed(c)
    /\ tool[c].args.limit = 0 /\ tool[c].args.offset = 1
    /\ Len(outcome[c].value.items.elems) = 20
    /\ outcome[c].value.total # -1 /\ outcome[c].value.total < 21
    /\ outcome[c].value.hasMore
    /\ outcome[c].value.nextCursor = Chars(<<"2", "1">>)

\* The value the inbound request carries for a credential header, "" when it
\* carries none.
Supplied(c, key) == IF inbound[c][key].present THEN inbound[c][key].value ELSE ""

\* The outbound request has the header exactly when the value is non-empty,
\* and then with that value.
Carries(request, name, value) ==
  /\ value # "" => <<name, value>> \in request.headers
  /\ \A h \in request.headers : h[1] = name => value # "" /\ h[2] = value

\* C14: every outbound request carries Content-Type: application/json, an
\* Authorization bearer header exactly when the primary token was supplied,
\* each provider-key header exactly when its credential was supplied, and no
\* other header.
C14_AuthHeaders ==
  \A c \in Calls :
    \A i \in 1..Len(reqs[c]) :
      LET request == reqs[c][i]
      IN /\ <<"Content-Type", "application/json">> \in request.headers
         /\ Supplied(c, "apiKey") # "" =>
              <<"Authorization", "Bearer " \o Supplied(c, "apiKey")>> \in request.headers
         /\ \A h \in request.headers :
              h[1] = "Authorization" =>
                Supplied(c, "apiKey") # "" /\ h[2] = "Bearer " \o Supplied(c, "apiKey")
         /\ Carries(request, "X-OpenAI-Api-Key", Supplied(c, "openaiApiKey"))
         /\ Carries(request, "X-Cohere-Api-Key", Supplied(c, "cohereApiKey"))
         /\ Carries(request, "X-HuggingFace-Api-Key", Supplied(c, "huggingfaceApiKey"))
         /\ Carries(request, "X-Anthropic-Api-Key", Supplied(c, "anthropicApiKey"))
         /\ Carries(request, "X-Azure-Api-Key", Supplied(c, "azureApiKey"))
         /\ \A h \in request.headers :
              h[1] \in {"Content-Type", "Authorization", "X-OpenAI-Api-Key", "X-Cohere-Api-Key",
                        "X-HuggingFace-Api-Key", "X-Anthropic-Api-Key", "X-Azure-Api-Key"}

\* A request of a tenant that supplied only an OpenAI key.
C14_Witness ==
  \E c \in Calls :
    /\ Len(reqs[c]) = 1
    /\ Supplied(c, "apiKey") = "" /\ Supplied(c, "openaiApiKey") = "o"
    /\ reqs[c][1].headers = {<<"Content-Type", "application/json">>, <<"X-OpenAI-Api-Key", "o">>}

\* The call built a search document and handed it to the request pipeline.
Searched(c) == tool[c].op \in SearchOps /\ Len(reqs[c]) = 1
Query(c) == reqs[c][1].query
\* The filter the caller passed, undefined when it passed none.
Where(c) == Opt(tool[c].args.options, "where")
Filtered(c) == Searched(c) /\ Where(c) # Undefined

\* Reading a document back: the number a numeric literal denotes (in tenths),
\* the content of a string literal.
TenthsOf(cs) ==
  IF \E i \in 1..Len(cs) : cs[i] = "."
    THEN LET i == CHOOSE i \in 1..Len(cs) : cs[i] = "."
         IN 10 * DecimalOf(SubSeq(cs, 1, i - 1)) + DigitOf(cs[i + 1])
    ELSE 10 * DecimalOf(cs)
RECURSIVE Unescape(_)
Unescape(cs) ==
  IF cs = <<>> THEN <<>>
  ELSE IF Head(cs) = "\\" THEN <<cs[2]>> \o Unescape(Tail(Tail(cs)))
  ELSE <<Head(cs)>> \o Unescape(Tail(cs))
Tenths(v) == 10 * v.n + (IF "frac" \in DOMAIN v THEN v.frac ELSE 0)

\* The part of a quoted text that a lexer takes as the string: up to the first
\* quote that no backslash precedes.
RECURSIVE UpToQuote(_)
UpToQuote(cs) ==
  IF cs = <<>> \/ Head(cs) = "\"" THEN <<>>
  ELSE IF Head(cs) = "\\" /\ Len(cs) > 1 THEN <<cs[1], cs[2]>> \o UpToQuote(Tail(Tail(cs)))
  ELSE <<Head(cs)>> \o UpToQuote(Tail(cs))

Read(tok) ==
  CASE tok.k = "number" -> [a |-> "number", tenths |-> TenthsOf(tok.chars)]
    [] tok.k = "quoted" -> [a |-> tok.k, chars |-> Unescape(UpToQuote(tok.chars))]
    [] tok.k \in {"string", "raw"} -> [a |-> tok.k, chars |-> Unescape(tok.chars)]
    [] OTHER -> [a |-> tok.k, name |-> tok.name]
ReadAll(ts) == [i \in 1..Len(ts) |-> Read(ts[i])]

\* What a value reads back as when it is embedded unchanged.
RECURSIVE Embedded(_)
Embedded(v) ==
  CASE v.t = "number" -> <<[a |-> "number", tenths |-> Tenths(v)]>>
    [] v.t = "string" -> <<[a |-> "string", chars |-> v.chars]>>
    [] v.t = "boolean" -> <<[a |-> "name", name |-> IF v.b THEN "true" ELSE "false"]>>
    [] v.t = "array" ->
         <<[a |-> "punct", name |-> "["]>>
         \o Flatten([i \in 1..Len(v.elems) |-> Embedded(v.elems[i])], [a |-> "punct", name |-> ","])
         \o <<[a |-> "punct", name |-> "]"]>>
    [] v.t = "obj" ->
         <<[a |-> "punct", name |-> "{"]>>
         \o Flatten([i \in 1..Len(v.members) |->
                       <<[a |-> "jkey", name |-> v.members[i][1]]>> \o Embedded(v.members[i][2])],
                    [a |-> "punct", name |-> ","])
         \o <<[a |-> "punct", name |-> "}"]>>

\* Nesting depth at a position: brackets opened and not yet closed before it.
Depth(ts, i) ==
  Cardinality({j \in 1..(i - 1) : ts[j] \in {P("{"), P("["), P("(")}})
  - Cardinality({j \in 1..(i - 1) : ts[j] \in {P("}"), P("]"), P(")")}})

\* The positions of a token, and the k-th of them.
Positions(ts, tok) == {i \in 1..Len(ts) : ts[i] = tok}
Nth(S, k) == CHOOSE i \in S : Cardinality({j \in S : j < i}) = k - 1

\* The tokens of the value that follows the key at position i: up to the next
\* comma or closing bracket of the enclosing object.
ValueAt(ts, i) ==
  LET end == CHOOSE j \in (i + 1)..Len(ts) :
               /\ Depth(ts, j) = Depth(ts, i) /\ ts[j] \in {P(","), P("}"), P(")")}
               /\ \A m \in (i + 1)..(j - 1) : ~(Depth(ts, m) = Depth(ts, i) /\ ts[m] \in {P(","), P("}"), P(")")})
  IN SubSeq(ts, i + 1, end - 1)

\* The nodes of a filter in document order, each with its nesting depth.
RECURSIVE PreOrder(_, _), PreOrderAll(_, _)
PreOrder(node, depth) ==
  <<[node |-> node, depth |-> depth]>>
  \o (IF Has(node, "operands") THEN PreOrderAll(Get(node, "operands").elems, depth + 1) ELSE <<>>)
PreOrderAll(nodes, depth) ==
  IF nodes = <<>> THEN <<>> ELSE PreOrder(Head(nodes), depth) \o PreOrderAll(Tail(nodes), depth)

ValueFields ==
  {"valueInt", "valueNumber", "valueBoolean", "valueString", "valueText", "valueDate",
   "valueGeoRange", "valueIntArray", "valueNumberArray", "valueBooleanArray",
   "valueStringArray", "valueTextArray", "valueDateArray"}
IsCombinator(node) == Get(node, "operator") \in {Text("And"), Text("Or")}

\* The value-field keys the document has for the k-th node of the filter:
\* those of the object that the k-th "operator" key opens.
ValueKeys(ts, k) ==
  LET ops == Positions(ts, JKey("operator"))
      from == Nth(ops, k)
      to == IF k < Cardinality(ops) THEN Nth(ops, k + 1) - 1 ELSE Len(ts)
  IN {i \in from..to : /\ ts[i].k = "jkey" /\ ts[i].name \in ValueFields
                       /\ Depth(ts, i) = Depth(ts, from)}

\* The document has one object per node of the filter, in the filter's order
\* and at the node's depth, carrying the node's operator.
Recursed(ts, nodes) ==
  LET ops == Positions(ts, JKey("operator"))
      w == Nth(Positions(ts, Key("where")), 1)
  IN /\ Cardinality(Positions(ts, Key("where"))) = 1
     /\ Cardinality(ops) = Len(nodes)
     /\ \A k \in 1..Len(nodes) :
          LET i == Nth(ops, k)
          IN /\ i > w
             /\ Read(ts[i + 1]) = [a |-> "string", chars |-> Get(nodes[k].node, "operator").chars]
             /\ Depth(ts, i) - Depth(ts, w) = 2 * nodes[k].depth + 1

\* C15: for every combinator node of a filter, the where clause holds the
\* serialization of every operand, recursively and in the operands' order, and
\* no value field of the combinator itself.
C15_CombinatorsRecurse ==
  \A c \in Calls :
    Filtered(c) =>
      LET ts == Query(c)
          nodes == PreOrder(Where(c), 0)
      IN /\ Recursed(ts, nodes)
         /\ \A k \in 1..Len(nodes) : IsCombinator(nodes[k].node) => ValueKeys(ts, k) = {}

C15_Witness ==
  \E c \in Calls :
    /\ Filtered(c)
    /\ Where(c) = Combinator("Or", <<Combinator("And", <<IntLeaf, GeoLeaf>>), IntLeaf>>)
    /\ Cardinality(Positions(Query(c), JKey("operator"))) = 5

\* The node's populated value field, as a (name, value) pair.
Populated(node) ==
  node.members[CHOOSE i \in 1..Len(node.members) : node.members[i][1] \in ValueFields]

\* C16: for every leaf node of a filter, the where clause has exactly one
\* value field for the node: the node's populated field, holding its value.
C16_LeafValuePreserved ==
  \A c \in Calls :
    Filtered(c) =>
      LET ts == Query(c)
          nodes == PreOrder(Where(c), 0)
      IN \A k \in 1..Len(nodes) :
           ~IsCombinator(nodes[k].node) =>
             /\ Cardinality(ValueKeys(ts, k)) = 1
             /\ \A i \in ValueKeys(ts, k) :
                  /\ ts[i].name = Populated(nodes[k].node)[1]
                  /\ ReadAll(ValueAt(ts, i)) = Embedded(Populated(nodes[k].node)[2])

\* The document has the key exactly when a value was given for it, once, and
\* then followed by that value.
KeyIffGiven(ts, key, given) ==
  /\ given = Undefined => Positions(ts, Key(key)) = {}
  /\ given # Undefined =>
       /\ Cardinality(Positions(ts, Key(key))) = 1
       /\ \A i \in Positions(ts, Key(key)) : ReadAll(ValueAt(ts, i)) = Embedded(given)

\* The value that follows the first occurrence of the key.
FirstValue(ts, key) == ReadAll(ValueAt(ts, Nth(Positions(ts, Key(key)), 1)))

\* C17: a near-text document embeds the concepts list and the requested
\* limit, a certainty key exactly when certainty was given and a distance key
\* exactly when distance was given, a given 0 included.
C17_NearTextDocument ==
  \A c \in Calls :
    Searched(c) /\ tool[c].op = "nearText" =>
      LET ts == Query(c)
          params == tool[c].args.params
          limit == Opt(tool[c].args.options, "limit")
      IN /\ Positions(ts, Key("nearText")) # {}
         /\ Positions(ts, Key("concepts")) # {}
         /\ FirstValue(ts, "concepts") = Embedded(params.concepts)
         /\ limit # Undefined => KeyIffGiven(ts, "limit", limit)
         /\ KeyIffGiven(ts, "certainty", params.certainty)
         /\ KeyIffGiven(ts, "distance", params.distance)

\* alpha as the client receives it: the hybrid tool's schema fills in 0.5 when
\* its caller gives none.
GivenAlpha(c) ==
  IF tool[c].args.via = "tool" /\ tool[c].args.params.alpha = Undefined
    THEN Frac(0, 5)
    ELSE tool[c].args.params.alpha

\* C18: a hybrid document embeds alpha: <value> exactly when alpha was given,
\* 0 included, and a vector: key exactly when a vector was given.
C18_HybridDocument ==
  \A c \in Calls :
    Searched(c) /\ tool[c].op = "hybridSearch" =>
      LET ts == Query(c)
          vector == tool[c].args.params.vector
      IN /\ Positions(ts, Key("hybrid")) # {}
         /\ KeyIffGiven(ts, "alpha", GivenAlpha(c))
         /\ KeyIffGiven(ts, "vector", vector)

\* alpha = 0.3 and no vector.
C18_Witness ==
  \E c \in Calls :
    /\ Searched(c) /\ tool[c].op = "hybridSearch" /\ tool[c].args.via = "client"
    /\ tool[c].args.params.alpha = Frac(0, 3)
    /\ tool[c].args.params.vector = Undefined
    /\ FirstValue(Query(c), "alpha") = <<[a |-> "number", tenths |-> 3]>>
    /\ Positions(Query(c), Key("vector")) = {}

\* The worker has received the call's request: a POST /mcp.
McpPost(c) == pc[c] # "idle" /\ inbound[c].route = "/mcp" /\ inbound[c].method = "POST"
\* The request was turned away: answered 401, with no client and no tool run.
RejectedUnserved(c) ==
  /\ pc[c] = "answered" /\ http[c] = 401
  /\ ~Served(c) /\ tool[c] = NoTool /\ reqs[c] = <<>>

\* C19: a POST /mcp request that lacks X-Weaviate-URL or lacks
\* X-Weaviate-API-Key is rejected and not served.
C19_BothHeadersRequired ==
  \A c \in Calls :
    McpPost(c) /\ (~inbound[c].url.present \/ ~inbound[c].apiKey.present) => RejectedUnserved(c)

\* The worker takes in a POST /mcp request that has no X-Weaviate-URL header.
TakesInWithoutUrl(c) ==
  /\ pc[c] = "idle" /\ pc'[c] # "idle"
  /\ inbound'[c].route = "/mcp" /\ inbound'[c].method = "POST" /\ ~inbound'[c].url.present

\* C20: a POST /mcp request without X-Weaviate-URL is answered 401 with no
\* server or client constructed for it, and no tool handler or outbound
\* request ever runs for it; /health is answered 200 whatever credential
\* headers the request has or lacks.
C20_RejectedBeforeConstruction ==
  /\ [](\A c \in Calls :
          /\ McpPost(c) /\ ~inbound[c].url.present => RejectedUnserved(c)
          /\ pc[c] # "idle" /\ inbound[c].route = "/health" =>
               pc[c] = "answered" /\ http[c] = 200 /\ ~Served(c))
  /\ [][\A c \in Calls : TakesInWithoutUrl(c) => clients' = clients /\ http'[c] = 401]_vars

\* A request with every key header but no URL header, turned away.
C20_Witness ==
  \E c \in Calls :
    /\ McpPost(c) /\ ~inbound[c].url.present /\ inbound[c].apiKey = Present("k2")
    /\ RejectedUnserved(c) /\ clients = <<>>

\* The response is a non-2xx one that none of the 429 / 401 / 403 / 404 rules takes.
OtherFailure(c) ==
  /\ Responded(c) /\ ~Ok(resp[c].status)
  /\ resp[c].status \notin {429, 401, 403, 404}

\* The body text as it was received, when the body is not empty.
RawBody(body) ==
  IF body.t = "text" THEN Str(body.text) ELSE [lit |-> "raw body", json |-> body.json]

\* The body parses as JSON to an object with a non-empty error.message.
HasNestedMessage(body) ==
  /\ body.t = "json" /\ body.json.t = "object"
  /\ body.json.error.t = "object" /\ body.json.error.message # ""

\* C21: the generic transport error's message is the nested error message of
\* the JSON body; otherwise the raw body text; otherwise the template with the
\* status code, which is used only when the body is empty.
C21_MessageFallback ==
  \A c \in Calls :
    OtherFailure(c) =>
      /\ Threw(pipe[c], "WeaviateApiError")
      /\ pipe[c].err.message =
           IF HasNestedMessage(resp[c].body) THEN Str(resp[c].body.json.error.message)
           ELSE IF resp[c].body.t # "empty" THEN RawBody(resp[c].body)
           ELSE StatusTemplate(resp[c].status)

\* The typed errors request() constructs.
PipelineErrors == {"RateLimitError", "AuthenticationError", "NotFoundError", "WeaviateApiError"}

\* x is a thrown typed error.
ThrewTyped(x) == x.kind = "throw" /\ x.err.typed

\* C22: a typed error of the pipeline has retryable = true exactly when it is a
\* rate-limit error, at request() and where the facade operation rethrows it,
\* and an error a call has raised is never changed afterwards.
C22_RetryableOnlyRateLimit ==
  /\ [](\A c \in Calls : \A x \in {pipe[c], outcome[c]} :
          ThrewTyped(x) =>
            /\ x.err.name \in PipelineErrors
            /\ x.err.retryable <=> x.err.name = "RateLimitError")
  /\ [][\A c \in Calls :
          /\ pipe[c].kind = "throw" => pipe'[c] = pipe[c]
          /\ outcome[c].kind = "throw" => outcome'[c] = outcome[c]
          /\ ThrewTyped(pipe'[c]) /\ ThrewTyped(outcome'[c]) =>
               outcome'[c].err.retryable = pipe'[c].err.retryable]_vars

\* A 429 has raised a rate-limit error, which the facade operation rethrows.
C22_Witness ==
  \E c \in Calls :
    /\ Responded(c) /\ resp[c].status = 429
    /\ Threw(pipe[c], "RateLimitError") /\ pipe[c].err.retryable
    /\ Threw(outcome[c], "RateLimitError") /\ outcome[c].err.retryable

\* A generic transport error raised by a 500, with its flag.
C22_WitnessGeneric ==
  \E c \in Calls :
    /\ OtherFailure(c) /\ Threw(outcome[c], "WeaviateApiError") /\ ~outcome[c].err.retryable

\* The message carries one of the network / timeout hints.
HasHint(message) ==
  \E hint \in {"network", "timeout", "ECONNRESET"} : includes(MessageText(message), hint)

\* isRetryableError has been evaluated on a generic transport error: one that is
\* none of the rate-limit, authentication and not-found errors.
RetryAsked ==
  /\ util.fn = "isRetryableError"
  /\ util.args[1].name \notin {"RateLimitError", "AuthenticationError", "NotFoundError"}

\* C23: for a generic transport error, those request() creates included,
\* isRetryableError returns true when the message contains a network / timeout
\* hint and false otherwise.
C23_RetryableByMessage ==
  RetryAsked => util.result = Bool(HasHint(util.args[1].message))

\* The selection set of a document: what stands between `) {` and the three
\* closing braces.
Selection(ts) ==
  LET close == CHOOSE i \in Positions(ts, P(")")) : \A j \in Positions(ts, P(")")) : j <= i
  IN SubSeq(ts, close + 2, Len(ts) - 3)

\* C24: without a field list, or with an empty one, the document selects
\* _additional { id distance certainty }; without a limit it carries limit: 10;
\* every document has exactly one limit argument, and it equals the requested
\* limit when one was given.
C24_Defaults ==
  \A c \in Calls :
    Searched(c) =>
      LET ts == Query(c)
          fields == Opt(tool[c].args.options, "fields")
          limit == Opt(tool[c].args.options, "limit")
      IN /\ fields = Undefined \/ fields = Arr(<<>>) => Selection(ts) = DefaultFields
         /\ Cardinality(Positions(ts, Key("limit"))) = 1
         /\ KeyIffGiven(ts, "limit", IF limit = Undefined THEN Number(10) ELSE limit)

\* The tenant the caller passed, undefined when it passed none.
Tenant(c) == Opt(tool[c].args.options, "tenant")

\* The document has one tenant argument, a quoted string that reads as the name.
HoldsTenant(ts, name) ==
  /\ Cardinality(Positions(ts, Key("tenant"))) = 1
  /\ \A i \in Positions(ts, Key("tenant")) :
       /\ Len(ValueAt(ts, i)) = 1 /\ ValueAt(ts, i)[1].k = "quoted"
       /\ Read(ValueAt(ts, i)[1]).chars = name.chars

\* C25: in each of the five searches the document has a tenant argument, the
\* tenant identifier as a quoted string, exactly when a tenant was supplied,
\* and a where argument exactly when a filter was supplied.
C25_TenantAndWhere ==
  \A c \in Calls :
    Searched(c) =>
      LET ts == Query(c)
      IN /\ IF Tenant(c) = Undefined THEN Positions(ts, Key("tenant")) = {}
            ELSE HoldsTenant(ts, Tenant(c))
         /\ Cardinality(Positions(ts, Key("where"))) = IF Where(c) = Undefined THEN 0 ELSE 1

\* request() has merged a caller's headers into the auth headers.
Merged == util.fn = "request.headers" /\ util.args[2] # Undefined

\* C26: a caller-supplied header replaces the auth header of the same name in
\* the outgoing request, every caller-supplied header is sent, and the auth
\* headers that are not overridden are sent unchanged.
C26_CallerHeaderWins ==
  Merged =>
    LET auth == util.args[1]
        extra == util.args[2].pairs
        sent == util.result.pairs
    IN /\ \A q \in extra : q \in sent
       /\ \A p \in auth, q \in extra : p[1] = q[1] /\ p[2] # q[2] => p \notin sent
       /\ \A p \in auth : (\A q \in extra : q[1] # p[1]) => p \in sent
       /\ \A a, b \in sent : a[1] = b[1] => a = b
       /\ sent \subseteq auth \cup extra

\* The caller's Content-Type replaces the client's while the client's
\* Authorization header is sent as it is.
C26_Witness ==
  /\ Merged
  /\ <<"Content-Type", "text/plain">> \in util.args[2].pairs
  /\ <<"Content-Type", "text/plain">> \in util.result.pairs
  /\ <<"Content-Type", "application/json">> \notin util.result.pairs
  /\ <<"Authorization", "Bearer k1">> \in util.result.pairs

----------------------------------------------------------------------------
(* Paging through a collection with listObjects *)

\* The server's answer to GET /objects?limit=L&offset=o on an unchanging
\* collection of n objects, numbered 1..n: min(L, max(0, n - offset)) of them,
\* with or without the total.
ServerPage(n, limit, offset, total) ==
  LET k == IF n - offset < 0 THEN 0 ELSE IF n - offset < limit THEN n - offset ELSE limit
  IN Response(200, NoHeader,
       JsonBody(JObject([t |-> "array", elems |-> [i \in 1..k |-> offset + i]],
                        total, Undefined, NoField, "")))

\* One client.listObjects(className, { limit, offset }) call against that server.
ListPage(n, limit, offset, total) ==
  listObjects(classify("/objects", ServerPage(n, limit, offset, total)).result, Args(limit, offset, 0))

\* A paging run never needs more calls than this.
MaxPageCalls == MaxObjects + 2

\* A caller starts paging: the first call, at offset 0.
ListFirstPage ==
  /\ util = NoUtil
  /\ \A c \in Calls : pc[c] = "idle"
  /\ \E n \in 0..MaxObjects, limit \in 1..MaxLimit, reported \in BOOLEAN :
       LET out == ListPage(n, limit, 0, IF reported THEN n ELSE -1)
       IN util' = [fn |-> "listObjects", args |-> <<n, limit, 0>>, result |-> out.value,
                   seen |-> out.value.items.elems, calls |-> 1]
  /\ UNCHANGED <<pc, inbound, http, clients, client, tool, reqs, resp, bodyRead, pipe, outcome, toolRes>>

\* The caller goes on while hasMore is set: the next call, with the same limit
\* and the returned nextCursor as its offset.
ListNextPage ==
  /\ util.fn = "listObjects"
  /\ util.result.hasMore /\ util.result.nextCursor.t = "string"
  /\ util.calls < MaxPageCalls
  /\ LET n == util.args[1]
         limit == util.args[2]
         offset == DecimalOf(util.result.nextCursor.chars)
         out == ListPage(n, limit, offset, util.result.total)
     IN util' = [fn |-> "listObjects", args |-> <<n, limit, offset>>, result |-> out.value,
                 seen |-> util.seen \o out.value.items.elems, calls |-> util.calls + 1]
  /\ UNCHANGED <<pc, inbound, http, clients, client, tool, reqs, resp, bodyRead, pipe, outcome, toolRes>>

NextPaging ==
  \/ ListFirstPage
  \/ ListNextPage

\* A caller that pages keeps calling for as long as a page says hasMore.
SpecPaging == Init /\ [][NextPaging]_vars /\ WF_vars(ListNextPage)

Paging == util.fn = "listObjects"
LastPage == Paging /\ ~util.result.hasMore

\* C27: paging with one limit L >= 1 from offset 0, each nextCursor passed as
\* the next offset, reaches a page with hasMore = false, and the pages up to
\* it hold every object of the collection exactly once; no page before it
\* holds an object twice or out of order.
C27_PagingTerminatesComplete ==
  /\ Paging ~> LastPage
  /\ [](LastPage => util.seen = [i \in 1..util.args[1] |-> i])
  /\ [](Paging => \A i \in 1..Len(util.seen) : util.seen[i] = i)

\* Eight objects read in pages of two: four full pages and an empty fifth.
C27_Witness ==
  /\ LastPage
  /\ util.args[1] = 8 /\ util.args[2] = 2 /\ util.calls = 5
  /\ Len(util.seen) = 8

\* The call's tool handler has run to its end.
Handled(c) == Done(c) /\ Served(c) /\ tool[c].op # ""

\* The handler read a property, or called a method, that the client's result lacks.
DerefFailed(c) ==
  /\ outcome[c].kind = "return"
  /\ \/ tool[c].op \in DerefTools /\ outcome[c].value.t = "undefined"
     \/ tool[c].op \in BatchTools /\ outcome[c].value.t # "array"

C29_StatusCodes ==
  \A c \in Calls :
    Done(c) /\ Served(c) =>
      /\ Threw(pipe[c], "AuthenticationError") =>
           /\ pipe[c].err.statusCode = 401
           /\ IF pipe[c].err.origin = "nourl" THEN clients[client[c]].baseUrl = <<>> /\ reqs[c] = <<>>
              ELSE Responded(c) /\ resp[c].status \in {401, 403}
      /\ Responded(c) /\ resp[c].status \in {401, 403} => Threw(pipe[c], "AuthenticationError")
      /\ Threw(pipe[c], "WeaviateApiError") =>
           Responded(c) /\ pipe[c].err.statusCode = resp[c].status
      /\ Threw(outcome[c], "AuthenticationError") => outcome[c].err.statusCode = 401
      /\ Threw(outcome[c], "WeaviateApiError") => outcome[c].err.statusCode = resp[c].status

\* A 403 response has raised an authentication error that says 401.
C29_Witness ==
  \E c \in Calls :
    /\ Responded(c) /\ resp[c].status = 403
    /\ Threw(outcome[c], "AuthenticationError") /\ outcome[c].err.statusCode = 401

\* A missing base URL has raised an authentication error that says 401.
C29_WitnessNoUrl ==
  \E c \in Calls :
    /\ Done(c) /\ Served(c) /\ reqs[c] = <<>>
    /\ pipe[c] = Throw(NoUrlError) /\ pipe[c].err.statusCode = 401

\* A 500 response has raised a generic transport error that says 500.
C29_WitnessGeneric ==
  \E c \in Calls :
    /\ Responded(c) /\ resp[c].status = 500
    /\ Threw(outcome[c], "WeaviateApiError") /\ outcome[c].err.statusCode = 500

\* A batch tool's handler has reported on the server's per-item results.
BatchReported(c) ==
  /\ Handled(c) /\ tool[c].op \in BatchTools
  /\ ~toolRes[c].isError /\ toolRes[c].data.t = "batch"

\* The per-item result carries at least one error entry.
HasErrorEntries(item) == item.shape = "errorList" /\ item.errors > 0

\* C30: the batch tools report successful + failed = total = the number of
\* per-item results the server returned, successful being the number of
\* results without error entries, both counts non-negative, and success: true
\* whatever the split.
C30_BatchCounts ==
  \A c \in Calls :
    BatchReported(c) =>
      LET report == toolRes[c].data
          results == resp[c].body.json.elems
          clean == IF "of" \in DOMAIN resp[c].body.json
                     THEN {i \in 1..Len(results) : ~HasErrorEntries(results[i])}
                     ELSE 1..Len(results)
      IN /\ report.total = Len(results)
         /\ report.successful + report.failed = report.total
         /\ report.successful = Cardinality(clean)
         /\ report.successful >= 0 /\ report.failed >= 0
         /\ report.success = TRUE

\* A batch of two in which one item failed and one did not.
C30_Witness ==
  \E c \in Calls :
    /\ BatchReported(c) /\ tool[c].op = "batchCreateObjects"
    /\ toolRes[c].data.total = 2 /\ toolRes[c].data.successful = 1 /\ toolRes[c].data.failed = 1
    /\ toolRes[c].data.success

\* Every item of a reference batch failed, and the report still says success.
C30_WitnessAllFailed ==
  \E c \in Calls :
    /\ BatchReported(c) /\ tool[c].op = "batchAddReferences"
    /\ toolRes[c].data.total = 2 /\ toolRes[c].data.failed = 2 /\ toolRes[c].data.success

====
